---- MODULE Spec2Model ----
(***************************************************************************)
(* A model of the RustKit binding generator (rustkit_bindgen/src/lib.rs)   *)
(* and of its runtime support crate (objc_rustime/src/lib.rs).             *)
(*                                                                         *)
(* bind_tu walks the top-level cursors of one translation unit and fills   *)
(* the catalog `decls` (a HashMap keyed by name) and the first-seen list   *)
(* `declnames`; gen_file then emits selector slots, class slots and one    *)
(* callable per method (MethodDecl::gen_call).  Texts that the generator   *)
(* rewrites character by character (selectors, method and argument names)  *)
(* are sequences of one-character strings; catalog keys are strings.       *)
(***************************************************************************)
EXTENDS Integers, Sequences, FiniteSets, TLC

VARIABLES
    decls,      \* bind_tu: HashMap<String, ItemDecl>
    declnames,  \* bind_tu: Vec<String>, first-seen order of the keys
    anonnames,  \* bind_tu: Vec<(location, name)> of named anonymous records
    nvisited,   \* number of top-level cursors the traversal has been given
    offered,    \* history: per class name, the member declarations the header held
    pc,         \* "visit" (in tu.visit), "done" (gen_file returned), "panic"
    out,        \* gen_file: the emitted unit
    ev,         \* EnumDecl::read under test: its input and its result
    sdk,        \* build.rs: the frameworks of the SDK, what each imports, which fail
    deps,       \* build.rs main: Vec<String>, the frameworks still to bind
    done,       \* build.rs main: HashSet<String>, the frameworks bound
    top,        \* build.rs main: the lines written to top.rs
    invoked,    \* history: the frameworks bind_framework was called with, in order
    mainpc,     \* build.rs main: "idle", "loop", "end" or "panic"
    refcount,   \* objc runtime: the retain count of each object
    raw,        \* raw pointers that carry one reference and no handle yet
    handles,    \* the live values of type Option<Arc<T>>
    poolstack,  \* objc runtime: the autorelease pools of the thread
    frames,     \* the autoreleasepool! blocks the function is inside, outermost first
    poollog,    \* history: the calls of objc_autoreleasePoolPush and ..Pop
    rerun       \* the generator run twice: the cursors given, the first run's result

genvars == <<decls, declnames, anonnames, nvisited, offered, pc, out, ev, rerun>>
drivervars == <<sdk, deps, done, top, invoked, mainpc>>
arcvars == <<refcount, raw, handles>>
poolvars == <<poolstack, frames, poollog>>
rtvars == <<drivervars, arcvars, poolvars, rerun>>

vars == <<decls, declnames, anonnames, nvisited, offered, pc, out, ev, sdk, deps, done, top, invoked, mainpc, refcount, raw, handles, poolstack, frames, poollog, rerun>>

\* the build driver, the handles and the pools before anything has run
DriverIdle ==
    /\ sdk = [imports |-> <<>>, fatal |-> {}]
    /\ deps = <<>>
    /\ done = {}
    /\ top = <<>>
    /\ invoked = <<>>
    /\ mainpc = "idle"

ArcIdle ==
    /\ refcount = <<>>
    /\ raw = {}
    /\ handles = <<>>

PoolIdle ==
    /\ poolstack = <<>>
    /\ frames = <<>>
    /\ poollog = <<>>

\* the generator is run once, over cursors that are not laid down beforehand
RerunIdle == rerun = [script |-> <<>>, first |-> <<>>]

(***************************************************************************)
(* Bounds of the model.                                                    *)
(***************************************************************************)
MaxCursors == 2     \* top-level cursors per translation unit of classes
MaxTypeCursors == 3 \* top-level cursors per translation unit of C types

(***************************************************************************)
(* Small helpers on maps and sequences.                                    *)
(***************************************************************************)
EmptyMap == <<>>

Range(s) == { s[i] : i \in DOMAIN s }

Insert(m, k, v) == (k :> v) @@ m

RECURSIVE SetToSeq(_)
SetToSeq(S) ==
    IF S = {} THEN <<>>
    ELSE LET x == CHOOSE y \in S : TRUE IN <<x>> \o SetToSeq(S \ {x})

\* the orders in which a HashSet or the values of a HashMap may be
\* iterated: the order is not specified and differs from run to run
RECURSIVE Orders(_)
Orders(S) ==
    IF S = {} THEN {<<>>}
    ELSE UNION { { <<x>> \o r : r \in Orders(S \ {x}) } : x \in S }

IsPrefix(p, s) == Len(p) <= Len(s) /\ SubSeq(s, 1, Len(p)) = p

\* str::replace(":", "_") on a text
ReplaceColon(s) == [i \in DOMAIN s |-> IF s[i] = ":" THEN "_" ELSE s[i]]

(***************************************************************************)
(* Texts used by the inputs.                                               *)
(***************************************************************************)
t_init == <<"i", "n", "i", "t">>
t_new == <<"n", "e", "w">>
t_isProxy == <<"i", "s", "P", "r", "o", "x", "y">>
t_initX == <<"i", "n", "i", "t", "X", ":">>
t_m1 == <<"m", "1">>
t_m2 == <<"m", "2">>
t_getP == <<"g", "e", "t", "P">>
t_setP == <<"s", "e", "t", "P", ":">>
t_as == <<"a", "s">>
t_x == <<"x">>

\* is_reserved_keyword
ReservedKeywords ==
    { <<"a", "s">>, <<"c", "r", "e", "a", "t", "e">>, <<"f", "a", "l", "s", "e">>,
      <<"f", "n">>, <<"i", "m", "p", "l">>, <<"l", "e", "t">>, <<"l", "o", "o", "p">>,
      <<"m", "a", "t", "c", "h">>, <<"m", "o", "d">>, <<"m", "u", "t">>,
      <<"p", "u", "b">>, <<"r", "e", "f">>, <<"S", "e", "l", "f">>,
      <<"s", "e", "l", "f">>, <<"s", "u", "p", "e", "r">>, <<"t", "r", "a", "i", "t">>,
      <<"t", "r", "u", "e">>, <<"t", "y", "p", "e">>, <<"u", "n", "s", "a", "f", "e">>,
      <<"u", "s", "e">>, <<"w", "h", "e", "r", "e">>,
      <<"a", "b", "s", "t", "r", "a", "c", "t">>, <<"a", "l", "i", "g", "n", "o", "f">>,
      <<"b", "e", "c", "o", "m", "e">>, <<"b", "o", "x">>, <<"f", "i", "n", "a", "l">>,
      <<"m", "a", "c", "r", "o">>, <<"o", "v", "e", "r", "r", "i", "d", "e">>,
      <<"p", "r", "i", "v">>, <<"p", "r", "o", "c">>, <<"p", "u", "r", "e">>,
      <<"v", "i", "r", "t", "u", "a", "l">>, <<"y", "i", "e", "l", "d">> }

is_reserved_keyword(s) == s \in ReservedKeywords

\* name, with '_' pushed when it is a reserved keyword
EscapeKeyword(s) == IF is_reserved_keyword(s) THEN Append(s, "_") ELSE s

(***************************************************************************)
(* enum Type.  Every value is a record with the same fields; `k` is the    *)
(* variant and the other fields hold the variant's payload.                *)
(***************************************************************************)
Ty(k, name, flag, n, inner, c) ==
    [k |-> k, name |-> name, flag |-> flag, n |-> n, inner |-> inner, c |-> c]

TVoid == Ty("Void", "", FALSE, 0, <<>>, FALSE)
TBool == Ty("Bool", "", FALSE, 0, <<>>, FALSE)
TInt(signed, size) == Ty("Int", "", signed, size, <<>>, FALSE)
TLong(signed) == Ty("Long", "", signed, 0, <<>>, FALSE)
TFloat(size) == Ty("Float", "", FALSE, size, <<>>, FALSE)
TPointer(inner, nonnull, const) == Ty("Pointer", "", nonnull, 0, <<inner>>, const)
TRecord(name, union) == Ty("Record", name, union, 0, <<>>, FALSE)
TEnum(name) == Ty("Enum", name, FALSE, 0, <<>>, FALSE)
TFunctionProto(args, ret, variadic) ==
    Ty("FunctionProto", "", variadic, 0, Append(args, ret), FALSE)
TFixedArray(inner, len) == Ty("FixedArray", "", FALSE, len, <<inner>>, FALSE)
TTypedef(name) == Ty("Typedef", name, FALSE, 0, <<>>, FALSE)
TInstanceType(nonnull) == Ty("InstanceType", "", nonnull, 0, <<>>, FALSE)
TSelectorRef == Ty("SelectorRef", "", FALSE, 0, <<>>, FALSE)
\* Id(Option<String>): flag tells Some from None
TId(some, proto) == Ty("Id", proto, some, 0, <<>>, FALSE)
\* Class(name, typeargs, protocols); the inputs of this model use no type
\* arguments and no protocol list
TClass(name) == Ty("Class", name, FALSE, 0, <<>>, FALSE)

Inner(t) == t.inner[1]

is_objc_object(t) ==
    /\ t.k = "Pointer"
    /\ Inner(t).k \in {"Id", "Class", "InstanceType"}

is_va_list(t) ==
    /\ t.k = "FixedArray"
    /\ Inner(t).k = "Record"
    /\ ~Inner(t).flag
    /\ Inner(t).name = "__va_list_tag"

\* Type::is_nonnull is unreachable!() on anything but a Pointer
is_nonnull_panics(t) == t.k # "Pointer"
is_nonnull(t) == t.flag

is_signed(t) ==
    CASE t.k \in {"Int", "Long"} -> t.flag
      [] t.k = "Float" -> TRUE
      [] OTHER -> FALSE

RECURSIVE TypeRefs(_), TypeRefsAll(_)
\* Type::refs, the names pushed on the list in order
TypeRefs(t) ==
    IF is_va_list(t) THEN <<>>
    ELSE CASE t.k \in {"FixedArray", "Pointer"} -> TypeRefs(Inner(t))
           [] t.k = "Enum" -> <<t.name>>
           [] t.k = "Record" /\ ~t.flag -> <<t.name>>
           [] t.k = "Id" /\ t.flag -> <<t.name \o "Proto">>
           [] t.k = "Class" ->
                (IF t.name # "Class" /\ t.name # "Protocol" THEN <<t.name>> ELSE <<>>)
                    \o TypeRefsAll(t.inner)
           [] t.k = "FunctionProto" -> TypeRefsAll(t.inner)
           [] OTHER -> <<>>
TypeRefsAll(ts) ==
    IF ts = <<>> THEN <<>> ELSE TypeRefs(Head(ts)) \o TypeRefsAll(Tail(ts))

\* Type::msg_send
msg_send(t) ==
    IF t.k = "Float" /\ t.n \in {4, 8} THEN "objc_msgSend_fpret" ELSE "objc_msgSend"

(***************************************************************************)
(* The target-language types the generator writes (syn::Type), as terms:   *)
(* c is the constructor, a its arguments, s a name, n a length.            *)
(***************************************************************************)
R(c, a, s, n) == [c |-> c, a |-> a, s |-> s, n |-> n]
RPrim(s) == R("prim", <<>>, s, 0)
RPath(s) == R("path", <<>>, s, 0)
RWrap(c, x) == R(c, <<x>>, "", 0)
RPanic == R("panic", <<>>, "", 0)

IntName(signed, size) ==
    CASE signed /\ size = 1 -> "i8"
      [] signed /\ size = 2 -> "i16"
      [] signed /\ size = 4 -> "i32"
      [] signed /\ size = 8 -> "i64"
      [] ~signed /\ size = 1 -> "u8"
      [] ~signed /\ size = 2 -> "u16"
      [] ~signed /\ size = 4 -> "u32"
      [] ~signed /\ size = 8 -> "u64"
      [] OTHER -> ""

RECURSIVE raw_ty(_)
\* Type::raw_ty
raw_ty(t) ==
    CASE t.k = "Void" -> RPrim("()")
      [] t.k = "Bool" -> RPrim("bool")
      [] t.k = "Int" ->
            IF IntName(t.flag, t.n) = "" THEN RPanic ELSE RPrim(IntName(t.flag, t.n))
      [] t.k = "Long" -> RPrim(IF t.flag THEN "isize" ELSE "usize")
      [] t.k = "Float" ->
            IF t.n = 4 THEN RPrim("f32") ELSE IF t.n = 8 THEN RPrim("f64") ELSE RPanic
      [] t.k = "FixedArray" -> R("array", <<raw_ty(Inner(t))>>, "", t.n)
      [] t.k = "Pointer" ->
            LET inner_ty == IF Inner(t).k = "Void" THEN RPrim("c_void")
                            ELSE raw_ty(Inner(t))
            IN  IF Inner(t).k = "FunctionProto"
                THEN IF t.flag THEN inner_ty ELSE RWrap("Option", inner_ty)
                ELSE IF t.c THEN RWrap("*const", inner_ty)
                ELSE RWrap("*mut", inner_ty)
      [] t.k = "FunctionProto" ->
            R("extern fn", [i \in DOMAIN t.inner |-> raw_ty(t.inner[i])], "",
              IF t.flag THEN 1 ELSE 0)
      [] t.k = "InstanceType" -> RPrim("Self")
      [] t.k = "SelectorRef" -> RPrim("SelectorRef")
      [] t.k = "Id" -> RPrim("Object")
      [] t.k \in {"Typedef", "Enum", "Record", "Class"} ->
            IF t.name = "" THEN RPanic ELSE RPath(t.name)
      [] OTHER -> RPanic

RECURSIVE rust_ty(_, _)
\* Type::rust_ty
rust_ty(t, o) ==
    CASE t.k \in {"Void", "Bool", "Int", "Long", "Float", "InstanceType",
                  "SelectorRef", "Id"} -> raw_ty(t)
      [] t.k = "FixedArray" -> R("array", <<rust_ty(Inner(t), o)>>, "", t.n)
      [] t.k = "Pointer" ->
            IF Inner(t).k = "FunctionProto" THEN raw_ty(t)
            ELSE LET inner0 == IF Inner(t).k = "Void" THEN RPrim("c_void")
                               ELSE rust_ty(Inner(t), TRUE)
                     inner1 == IF is_objc_object(t) /\ o THEN RWrap("Arc", inner0)
                               ELSE RWrap("&", inner0)
                     inner2 == IF Inner(t).k = "Pointer" THEN RWrap("&mut", inner1)
                               ELSE inner1
                 IN  IF t.flag THEN inner2 ELSE RWrap("Option", inner2)
      [] t.k \in {"Typedef", "Enum", "Class"} -> RPath(t.name)
      [] t.k = "Record" /\ ~t.flag -> RPath(t.name)
      [] OTHER -> RPanic

(***************************************************************************)
(* Option<T>: None is the empty sequence, Some(x) the sequence <<x>>.      *)
(***************************************************************************)
None == <<>>
Some(x) == <<x>>
IsSome(o) == o # <<>>
Unwrap(o) == o[1]

(***************************************************************************)
(* Cursors (walker::Cursor), as far as the generator reads them.  A member *)
(* cursor is a child of an interface, category or protocol.  The types it  *)
(* carries are the results of Type::read on the cursor's types.            *)
(***************************************************************************)
MethodCursor(kind, name, availability, swift, attrs, result_ty, args) ==
    [kind |-> kind, name |-> name, availability |-> availability,
     swift_unavailable |-> swift, attrs |-> attrs, result_ty |-> result_ty,
     args |-> args, getter_name |-> <<>>, setter_name |-> <<>>,
     readonly |-> FALSE, class |-> FALSE, ty |-> TVoid]

PropertyCursor(name, availability, getter, setter, readonly, class, ty) ==
    [kind |-> "ObjCPropertyDecl", name |-> name, availability |-> availability,
     swift_unavailable |-> FALSE, attrs |-> <<>>, result_ty |-> TVoid,
     args |-> <<>>, getter_name |-> getter, setter_name |-> setter,
     readonly |-> readonly, class |-> class, ty |-> ty]

AvailabilityOfCursor(c) == c.availability

\* bind_availability: an available declaration that carries an unavailable
\* attribute for the "swift" platform counts as not available
bind_availability(c) ==
    IF c.availability = "Available" /\ c.swift_unavailable
    THEN "NotAvailable"
    ELSE c.availability

RECURSIVE ReturnOwnership(_, _)
\* MethodDecl::read, the ownership left by the attribute children in order
ReturnOwnership(attrs, acc) ==
    IF attrs = <<>> THEN acc
    ELSE ReturnOwnership(Tail(attrs),
            CASE Head(attrs) = "NSReturnsRetained" -> "Retained"
              [] Head(attrs) = "NSReturnsNotRetained" -> "NotRetained"
              [] Head(attrs) = "NSReturnsAutoreleased" -> "Autoreleased"
              [] OTHER -> acc)

\* MethodDecl::read
MethodDeclRead(c) ==
    [rustname |-> EscapeKeyword(ReplaceColon(c.name)),
     avail |-> bind_availability(c),
     args |-> [i \in DOMAIN c.args |->
                 [name |-> EscapeKeyword(c.args[i].name), ty |-> c.args[i].ty]],
     retty |-> c.result_ty,
     ret_own |-> ReturnOwnership(c.attrs, "Autoreleased"),
     inter_ptr |-> \E i \in DOMAIN c.attrs : c.attrs[i] = "ObjCReturnsInnerPointer",
     consumes_self |-> \E i \in DOMAIN c.attrs : c.attrs[i] = "NSConsumesSelf"]

\* MethodDecl::refs
MethodRefs(m) ==
    TypeRefsAll([i \in DOMAIN m.args |-> m.args[i].ty]) \o TypeRefs(m.retty)

\* PropertyDecl::read
PropertyDeclRead(c) ==
    [ty |-> c.ty,
     getter |-> c.getter_name,
     setter |-> IF ~c.readonly THEN Some(c.setter_name) ELSE None,
     getter_method |-> None,
     setter_method |-> None]

(***************************************************************************)
(* ClassDecl::read_category: the closure run on each child in order.  A    *)
(* panic! ends the process; the fold carries it as a flag.                 *)
(***************************************************************************)
ReadMember(st, c) ==
    LET d == st.d IN
    IF st.panic \/ bind_availability(c) = "NotAvailable" THEN st
    ELSE CASE c.kind = "ObjCClassMethodDecl" ->
                [d |-> [d EXCEPT !.cmethods = Insert(@, c.name, MethodDeclRead(c))],
                 panic |-> c.name \in DOMAIN d.cmethods]
           [] c.kind = "ObjCInstanceMethodDecl" ->
                LET selname == c.name
                    decl == MethodDeclRead(c)
                    byGetter == {p \in DOMAIN d.iprops : d.iprops[p].getter = selname}
                    bySetter == {p \in DOMAIN d.iprops :
                                    d.iprops[p].setter = Some(selname)}
                IN  IF byGetter # {}
                    THEN LET p == CHOOSE q \in byGetter : TRUE
                         IN  [st EXCEPT !.d.iprops[p].getter_method = Some(decl)]
                    ELSE IF bySetter # {}
                    THEN LET p == CHOOSE q \in bySetter : TRUE
                         IN  [st EXCEPT !.d.iprops[p].setter_method = Some(decl)]
                    ELSE [d |-> [d EXCEPT !.imethods = Insert(@, selname, decl)],
                          panic |-> selname \in DOMAIN d.imethods]
           [] c.kind = "ObjCPropertyDecl" ->
                IF c.class
                THEN [d |-> [d EXCEPT !.cprops =
                                Insert(@, c.name, PropertyDeclRead(c))],
                      panic |-> c.name \in DOMAIN d.cprops]
                ELSE [st EXCEPT !.d.iprops = Insert(@, c.name, PropertyDeclRead(c))]
           [] OTHER -> st

RECURSIVE ReadMembers(_, _)
ReadMembers(st, children) ==
    IF children = <<>> THEN st
    ELSE ReadMembers(ReadMember(st, Head(children)), Tail(children))

\* ClassDecl::read_category
read_category(d, c) == ReadMembers([d |-> d, panic |-> FALSE], c.children)

\* ClassDecl::read
ClassDeclRead(c) ==
    read_category(
        [src |-> c.src, rustname |-> c.name, superclass |-> c.superclass,
         size |-> IF c.kind = "ObjCInterfaceDecl" THEN c.size ELSE 0,
         protocols |-> c.protocols,
         cprops |-> EmptyMap, iprops |-> EmptyMap,
         cmethods |-> EmptyMap, imethods |-> EmptyMap],
        c)

HashSetInsertAlways(h, x) == Append(h, x)

\* ClassDecl::collect_selectors; the HashSet is kept as a sequence without
\* repetition, in an order the program does not fix
HashSetInsert(h, x) == IF x \in Range(h) THEN h ELSE Append(h, x)

RECURSIVE HashSetInsertAll(_, _)
HashSetInsertAll(h, xs) ==
    IF xs = <<>> THEN h ELSE HashSetInsertAll(HashSetInsert(h, Head(xs)), Tail(xs))

PropSelectors(p) == <<p.getter>> \o p.setter

RECURSIVE PropsSelectors(_, _)
PropsSelectors(iprops, names) ==
    IF names = <<>> THEN <<>>
    ELSE PropSelectors(iprops[Head(names)]) \o PropsSelectors(iprops, Tail(names))

collect_selectors(d, h) ==
    HashSetInsertAll(h,
        PropsSelectors(d.iprops, SetToSeq(DOMAIN d.iprops))
            \o SetToSeq(DOMAIN d.cmethods)
            \o SetToSeq(DOMAIN d.imethods))

(***************************************************************************)
(* MethodDecl::gen_call.  The emitted function is a record: its name, its  *)
(* parameters (self_param tells whether `&self` leads them), its return    *)
(* type, the dispatch entry, the receiver expression, the selector slot    *)
(* it names, and the statements run before (setup) and after (finish) the  *)
(* dispatch.                                                               *)
(***************************************************************************)
Digits == <<"0", "1", "2", "3", "4", "5", "6", "7", "8", "9">>

RECURSIVE DecimalText(_)
DecimalText(n) ==
    IF n < 10 THEN <<Digits[n + 1]>>
    ELSE DecimalText(n \div 10) \o <<Digits[(n % 10) + 1]>>

t_SEL == <<"S", "E", "L", "_">>
t_temp == <<"_", "_", "t", "e", "m", "p", "_">>

\* the selector slot's identifier: "SEL_" followed by the selector with
\* every ':' replaced by '_'
SelName(s) == t_SEL \o ReplaceColon(s)

\* the scan over the arguments that names the parameters: a name already
\* used by n earlier arguments becomes name_(n+1)
ParamName(args, i) ==
    LET n == Cardinality({j \in 1..(i - 1) : args[j].name = args[i].name})
    IN  IF n = 0 THEN args[i].name
        ELSE args[i].name \o <<"_">> \o DecimalText(n + 1)

\* Type::to_raw_expr
to_raw_expr(t, name) ==
    LET e == IF t.k = "Pointer"
             THEN CASE Inner(t).k = "FunctionProto" -> "name"
                    [] Inner(t).k = "Pointer" ->
                         IF t.flag THEN "temp_addr" ELSE "temp_addr_or_null"
                    [] OTHER -> IF t.flag THEN "cast" ELSE "cast_or_null"
             ELSE "name"
    IN  [e |-> e, name |-> name, temp |-> t_temp \o name]

\* Type::conversion_setup
conversion_setup(t, name) ==
    IF t.k = "Pointer" /\ Inner(t).k = "Pointer"
    THEN Some([stmt |-> "let_null", temp |-> t_temp \o name])
    ELSE None

RECURSIVE Setups(_)
Setups(args) ==
    IF args = <<>> THEN <<>>
    ELSE conversion_setup(Head(args).ty, Head(args).name) \o Setups(Tail(args))

NoCall == [r |-> "None"]
PanicCall == [r |-> "Panic"]

\* line 630: the method is exposed as a constructor
is_initializer(m) == m.consumes_self /\ IsPrefix(t_init, m.rustname)

\* line 631-635: rustname.replacen("init", "new", 1) where rustname starts
\* with "init"
MethodName(m) ==
    IF is_initializer(m)
    THEN t_new \o SubSeq(m.rustname, Len(t_init) + 1, Len(m.rustname))
    ELSE m.rustname

HasSelfParamUnlessInitializer(initializer, class) == ~initializer

\* lines 654-656: `&self` leads the parameters
HasSelfParam(initializer, class) == ~initializer /\ ~class

\* lines 661-665
RustRetTy(m) ==
    IF is_objc_object(m.retty) \/ m.inter_ptr
    THEN rust_ty(m.retty, TRUE)
    ELSE raw_ty(m.retty)

\* lines 674-680: the statement that claims an autoreleased result
OwnershipClaim(m) ==
    IF m.ret_own = "Autoreleased" /\ is_objc_object(m.retty)
    THEN <<"objc_retainAutoreleasedReturnValue">>
    ELSE <<>>

WrapReturnInnerAsHandle(m) ==
    IF is_objc_object(m.retty) \/ m.inter_ptr
    THEN IF is_nonnull(m.retty) THEN <<"Arc::new_unchecked">> ELSE <<"Arc::new">>
    ELSE <<>>

\* lines 681-705: the statement that turns _ret into the returned value
WrapReturn(m) ==
    IF is_objc_object(m.retty)
    THEN IF is_nonnull(m.retty) THEN <<"Arc::new_unchecked">> ELSE <<"Arc::new">>
    ELSE IF m.inter_ptr
    THEN IF is_nonnull(m.retty) THEN <<"deref">> ELSE <<"deref_or_none">>
    ELSE <<>>

GetObjInitializerFirst(class, initializer) ==
    IF initializer THEN "objc_allocWithZone"
    ELSE IF class THEN "classref"
    ELSE "self"

\* lines 706-713: the receiver expression of the dispatch
GetObj(class, initializer) ==
    IF class THEN "classref"
    ELSE IF initializer THEN "objc_allocWithZone"
    ELSE "self"

gen_call(m, ds, s, class) ==
    LET refs == MethodRefs(m)
        initializer == is_initializer(m)
        params == [i \in DOMAIN m.args |->
                     [name |-> ParamName(m.args, i),
                      ty |-> rust_ty(m.args[i].ty, FALSE)]]
        rawtypes == [i \in DOMAIN m.args |-> raw_ty(m.args[i].ty)]
        raw_ret_ty == raw_ty(m.retty)
        rust_ret_ty == RustRetTy(m)
        panics ==
            \/ \E i \in DOMAIN params : params[i].ty = RPanic
            \/ \E i \in DOMAIN rawtypes : rawtypes[i] = RPanic
            \/ raw_ret_ty = RPanic
            \/ rust_ret_ty = RPanic
            \/ ~is_objc_object(m.retty) /\ m.inter_ptr /\ is_nonnull_panics(m.retty)
    IN  IF m.avail = "NotAvailable" THEN NoCall
        ELSE IF \E i \in DOMAIN refs : refs[i] \notin DOMAIN ds /\ refs[i] # "NSString"
        THEN NoCall
        ELSE IF \E i \in DOMAIN m.args : is_va_list(m.args[i].ty) THEN NoCall
        ELSE IF panics THEN PanicCall
        ELSE [r |-> "Some",
              mname |-> MethodName(m),
              sel |-> s,
              selname |-> SelName(s),
              self_param |-> HasSelfParam(initializer, class),
              params |-> params,
              ret |-> rust_ret_ty,
              rawtypes |-> rawtypes,
              raw_ret |-> raw_ret_ty,
              msgsend |-> msg_send(m.retty),
              get_obj |-> GetObj(class, initializer),
              setup |-> Setups(m.args),
              args |-> [i \in DOMAIN m.args |->
                          to_raw_expr(m.args[i].ty, m.args[i].name)],
              finish |-> OwnershipClaim(m) \o WrapReturn(m)]

(***************************************************************************)
(* EnumDecl::read.  clang hands a constant's value over as a long long or  *)
(* an unsigned long long; the model gives these ValueBits bits, so that    *)
(* MinSigned stands for i64::min_value() and MaxSigned for                 *)
(* i64::max_value().                                                       *)
(***************************************************************************)
ValueBits == 4

RECURSIVE Pow2(_)
Pow2(n) == IF n = 0 THEN 1 ELSE 2 * Pow2(n - 1)

MinSigned == -Pow2(ValueBits - 1)
MaxSigned == Pow2(ValueBits - 1) - 1
MaxUnsigned == Pow2(ValueBits) - 1

\* i64::checked_abs
CheckedAbs(v) == IF v = MinSigned THEN None ELSE Some(IF v < 0 THEN -v ELSE v)

\* a non-negative i64 `as u64`, and u64 addition
AsU64(v) == v % Pow2(ValueBits)

MagnitudeOffByOne(val) ==
    IF IsSome(CheckedAbs(val)) THEN AsU64(Unwrap(CheckedAbs(val))) ELSE AsU64(MaxSigned)

\* val.checked_abs().map_or(i64::max_value() as u64 + 1, |v| v as u64)
Magnitude(val) ==
    IF IsSome(CheckedAbs(val))
    THEN AsU64(Unwrap(CheckedAbs(val)))
    ELSE AsU64(AsU64(MaxSigned) + 1)

\* the (val, neg) pair of one EnumConstantDecl
ConstantValue(ty, c) ==
    IF is_signed(ty)
    THEN [val |-> Magnitude(c.value), neg |-> c.value < 0]
    ELSE [val |-> c.value, neg |-> FALSE]

RECURSIVE EnumVariants(_, _, _)
EnumVariants(ty, children, variants) ==
    IF children = <<>> THEN variants
    ELSE LET c == Head(children)
             v == ConstantValue(ty, c)
         IN  EnumVariants(ty, Tail(children),
                IF c.kind = "EnumConstantDecl"
                   /\ ~\E i \in DOMAIN variants :
                         variants[i].val = v.val /\ variants[i].neg = v.neg
                THEN Append(variants, [name |-> c.name, val |-> v.val, neg |-> v.neg])
                ELSE variants)

EnumDeclRead(c) ==
    [src |-> c.src, rustname |-> c.name, ty |-> c.enum_ty, exhaustive |-> FALSE,
     flagenum |-> \E i \in DOMAIN c.children : c.children[i].kind = "FlagEnum",
     variants |-> EnumVariants(c.enum_ty, c.children, <<>>)]

\* gen_file, lines 1591-1604: the value written for a variant
VariantLiteral(v) == IF v.neg THEN -v.val ELSE v.val

(***************************************************************************)
(* RecordDecl::read: the records nested in c, then c itself.               *)
(***************************************************************************)
RECURSIVE RecordDeclRead(_), RecordChildren(_, _, _)
RecordDeclRead(c) ==
    LET st == RecordChildren(c.children, <<>>, <<>>)
    IN  Append(st.res, [src |-> c.src, rustname |-> c.name, fields |-> st.fields,
                        union |-> c.kind = "UnionDecl"])
RecordChildren(children, fields, res) ==
    IF children = <<>> THEN [fields |-> fields, res |-> res]
    ELSE LET c == Head(children) IN
         CASE c.kind = "FieldDecl" ->
                IF \/ c.name = <<>>
                   \/ c.ty.k = "Record" /\ c.ty.name = ""
                   \/ c.ty.k = "FixedArray" /\ Inner(c.ty).k = "Record"
                        /\ Inner(c.ty).name = ""
                THEN RecordChildren(Tail(children), fields, res)
                ELSE RecordChildren(Tail(children),
                                    Append(fields, [name |-> c.name, ty |-> c.ty]), res)
           [] c.kind \in {"StructDecl", "UnionDecl"} ->
                IF c.name = ""
                THEN RecordChildren(Tail(children), fields, res)
                ELSE RecordChildren(Tail(children), fields, res \o RecordDeclRead(c))
           [] OTHER -> RecordChildren(Tail(children), fields, res)

\* TypedefDecl::read; c.ty is Type::read of the typedef's underlying type
TypedefDeclRead(c) == [src |-> c.src, rustname |-> c.name, ty |-> c.ty]

(***************************************************************************)
(* The other catalog entries.                                              *)
(***************************************************************************)
\* FunctionDecl::read
FunctionDeclRead(c) ==
    [src |-> c.src, rustname |-> c.name, avail |-> bind_availability(c),
     args |-> c.args, retty |-> c.result_ty, variadic |-> c.variadic]

\* enum ItemDecl
Item(kind, d) == [item |-> kind, d |-> d]

\* Path::starts_with, on paths given as their components
StartsWith(path, base) == IsPrefix(base, path)

(***************************************************************************)
(* gen_file.  The emitted unit: sels, one static per element of the        *)
(* selector set; items, one entry per emitted catalog entry in declnames   *)
(* order; funcs, the foreign functions of the extern block.                *)
(***************************************************************************)
RECURSIVE CollectAll(_, _, _)
\* the loop over decls.values() that fills the selector set
CollectAll(ds, keys, h) ==
    IF keys = <<>> THEN h
    ELSE CollectAll(ds, Tail(keys),
            IF ds[Head(keys)].item \in {"Class", "Proto"}
            THEN collect_selectors(ds[Head(keys)].d, h)
            ELSE h)

SelectorSlots(ds) ==
    LET h == CollectAll(ds, SetToSeq(DOMAIN ds), <<>>)
    IN  [i \in DOMAIN h |-> [text |-> h[i], name |-> SelName(h[i])]]

Tagged(origin, key, call) == [origin |-> origin, key |-> key, call |-> call]

\* the four loops that fill `methods` of a class's impl block
ClassCalls(c, ds) ==
    LET props == {p \in DOMAIN c.iprops : c.iprops[p].getter \notin DOMAIN c.cmethods}
    IN  { Tagged("getter", p,
                 gen_call(Unwrap(c.iprops[p].getter_method), ds,
                          c.iprops[p].getter, FALSE)) :
            p \in {q \in props : IsSome(c.iprops[q].getter_method)} }
        \cup
        { Tagged("setter", p,
                 gen_call(Unwrap(c.iprops[p].setter_method), ds,
                          Unwrap(c.iprops[p].setter), FALSE)) :
            p \in {q \in props : IsSome(c.iprops[q].setter_method)} }
        \cup
        { Tagged("cmethod", sel, gen_call(c.cmethods[sel], ds, sel, TRUE)) :
            sel \in DOMAIN c.cmethods }
        \cup
        { Tagged("imethod", sel, gen_call(c.imethods[sel], ds, sel, FALSE)) :
            sel \in DOMAIN c.imethods \ DOMAIN c.cmethods }

\* the loop that fills `methods` of a protocol's trait
ProtoCalls(c, ds) ==
    { Tagged("imethod", sel, gen_call(c.imethods[sel], ds, sel, FALSE)) :
        sel \in DOMAIN c.imethods }

Emitted(calls) == {x \in calls : x.call.r = "Some"}

\* one iteration of `for k in declnames`
GenItem(ds, k, base_path) ==
    LET e == ds[k]
        d == e.d
    IN  IF ~StartsWith(d.src, base_path) THEN None
        ELSE CASE e.item = "Class" ->
                    Some([item |-> "Class", key |-> k, classref |-> "CLASS_" \o k,
                          name |-> d.rustname,
                          start |-> d.superclass, size |-> d.size,
                          protocols |-> d.protocols,
                          methods |-> Emitted(ClassCalls(d, ds)),
                          panic |-> \E x \in ClassCalls(d, ds) : x.call.r = "Panic"])
               [] e.item = "Proto" ->
                    Some([item |-> "Proto", key |-> k, name |-> k,
                          methods |-> Emitted(ProtoCalls(d, ds)),
                          panic |-> \E x \in ProtoCalls(d, ds) : x.call.r = "Panic"])
               [] e.item = "Enum" ->
                    Some([item |-> "Enum", key |-> k, name |-> d.rustname,
                          repr |-> rust_ty(d.ty, FALSE), flagenum |-> d.flagenum,
                          variants |-> d.variants,
                          panic |-> rust_ty(d.ty, FALSE) = RPanic])
               [] e.item = "Record" ->
                    Some([item |-> "Record", key |-> k, name |-> d.rustname,
                          shape |-> IF d.fields = <<>> THEN "opaque"
                                    ELSE IF d.union THEN "union" ELSE "struct",
                          fields |-> [i \in DOMAIN d.fields |->
                                        [name |-> EscapeKeyword(d.fields[i].name),
                                         ty |-> raw_ty(d.fields[i].ty)]],
                          panic |-> \E i \in DOMAIN d.fields :
                                        raw_ty(d.fields[i].ty) = RPanic])
               [] e.item = "Typedef" ->
                    IF is_va_list(d.ty) THEN None
                    ELSE Some([item |-> "Typedef", key |-> k, name |-> d.rustname,
                               ty |-> raw_ty(d.ty), panic |-> raw_ty(d.ty) = RPanic])
               [] OTHER -> None

RECURSIVE GenItems(_, _, _)
GenItems(ds, names, base_path) ==
    IF names = <<>> THEN <<>>
    ELSE IF Head(names) \notin DOMAIN ds
    THEN <<[item |-> "Panic", key |-> Head(names), panic |-> TRUE]>>
    ELSE GenItem(ds, Head(names), base_path) \o GenItems(ds, Tail(names), base_path)

\* the extern block
GenFuncs(ds, base_path) ==
    { [name |-> ds[k].d.rustname,
       args |-> [i \in DOMAIN ds[k].d.args |->
                   [name |-> IF is_reserved_keyword(ds[k].d.args[i].name)
                                \/ ds[k].d.args[i].name = <<>>
                             THEN Append(ds[k].d.args[i].name, "_")
                             ELSE ds[k].d.args[i].name,
                    ty |-> raw_ty(ds[k].d.args[i].ty)]],
       ret |-> raw_ty(ds[k].d.retty),
       variadic |-> ds[k].d.variadic] :
        k \in {q \in DOMAIN ds :
                 /\ ds[q].item = "Func"
                 /\ ds[q].d.avail # "NotAvailable"
                 /\ StartsWith(ds[q].d.src, base_path)
                 /\ ~\E i \in DOMAIN ds[q].d.args : is_va_list(ds[q].d.args[i].ty)} }

gen_file(ds, names, base_path) ==
    LET items == GenItems(ds, names, base_path)
        funcs == GenFuncs(ds, base_path)
    IN  [sels |-> SelectorSlots(ds),
         items |-> items,
         funcs |-> funcs,
         panic |-> \/ \E i \in DOMAIN items : items[i].panic
                   \/ \E f \in funcs :
                        \/ f.ret = RPanic
                        \/ \E i \in DOMAIN f.args : f.args[i].ty = RPanic]

(***************************************************************************)
(* bind_tu: the closure given to tu.visit, one action per match arm, and   *)
(* the call of gen_file that follows the traversal.                        *)
(***************************************************************************)
TopCursor(kind, name, src, availability, superclass, protocols, size, classref, children) ==
    [kind |-> kind, name |-> name, src |-> src, availability |-> availability,
     superclass |-> superclass, protocols |-> protocols, size |-> size,
     classref |-> classref, children |-> children]

FunctionCursor(name, src, availability, swift, args, result_ty, variadic) ==
    [kind |-> "FunctionDecl", name |-> name, src |-> src,
     availability |-> availability, swift_unavailable |-> swift, args |-> args,
     result_ty |-> result_ty, variadic |-> variadic]

\* base_path of the run, and a header below it and one outside it
BasePath == <<"SDK", "Base.framework", "Headers">>
LocalSrc == BasePath \o <<"Base.h">>
ForeignSrc == <<"SDK", "Other.framework", "Headers", "Other.h">>

NoOut ==
    [sels |-> <<>>, items |-> <<>>, funcs |-> {}, funcorder |-> <<>>, panic |-> FALSE]
NoEnum == [phase |-> "none"]

Init ==
    /\ decls = EmptyMap
    /\ declnames = <<>>
    /\ anonnames = <<>>
    /\ nvisited = 0
    /\ offered = {}
    /\ pc = "visit"
    /\ out = NoOut
    /\ ev = NoEnum
    /\ DriverIdle
    /\ ArcIdle
    /\ PoolIdle
    /\ RerunIdle

\* history: the method declarations met under the cursor c of owner `key`,
\* with the availability the header gives each
Offers(key, c) ==
    { [owner |-> key, class |-> m.kind = "ObjCClassMethodDecl", sel |-> m.name,
       availability |-> m.availability, swift_unavailable |-> m.swift_unavailable] :
        m \in { c.children[i] : i \in { j \in DOMAIN c.children :
                   c.children[j].kind \in {"ObjCClassMethodDecl",
                                           "ObjCInstanceMethodDecl"} } } }

\* history: the declaration of function c.name that the catalog holds
OffersFunction(c) ==
    [func |-> c.name, availability |-> c.availability,
     swift_unavailable |-> c.swift_unavailable]

\* history: the type declaration c has been visited; a typedef is recorded
\* with the declaration its type names
OffersType(c) ==
    [decl |-> c.kind, name |-> c.name,
     of |-> IF c.kind = "TypedefDecl"
            THEN <<c.ty_kind, c.nty_kind, c.decl.name, c.decl.loc>>
            ELSE <<>>]

Visiting(c) ==
    /\ pc = "visit"
    /\ nvisited < MaxCursors
    /\ nvisited' = nvisited + 1

VisitingType(c) ==
    /\ pc = "visit"
    /\ nvisited < MaxTypeCursors
    /\ nvisited' = nvisited + 1

Panic ==
    /\ pc' = "panic"
    /\ UNCHANGED <<decls, declnames>>

\* lines 1193-1195: an unavailable top-level cursor is passed over
SkipUnavailable(c) ==
    /\ Visiting(c)
    /\ c.availability = "NotAvailable"
    /\ UNCHANGED <<decls, declnames, anonnames, offered, pc, out, ev, rtvars>>

\* CursorKind::ObjCCategoryDecl
VisitCategory(c) ==
    /\ Visiting(c)
    /\ c.availability # "NotAvailable"
    /\ c.kind = "ObjCCategoryDecl"
    /\ offered' = offered \cup Offers(c.classref, c)
    /\ LET class == ClassDeclRead(c)
           classname == c.classref
       IN  IF class.panic THEN Panic
           ELSE IF classname \in DOMAIN decls /\ decls[classname].item = "Class"
           THEN LET r == read_category(decls[classname].d, c)
                IN  IF r.panic THEN Panic
                    ELSE /\ decls' = [decls EXCEPT ![classname].d = r.d]
                         /\ UNCHANGED <<declnames, pc>>
           ELSE UNCHANGED <<decls, declnames, pc>>
    /\ UNCHANGED <<anonnames, out, ev, rtvars>>

\* CursorKind::ObjCInterfaceDecl
VisitInterface(c) ==
    /\ Visiting(c)
    /\ c.availability # "NotAvailable"
    /\ c.kind = "ObjCInterfaceDecl"
    /\ offered' = offered \cup Offers(c.name, c)
    /\ LET name == c.name
           class == ClassDeclRead(c)
       IN  IF class.panic \/ name \in DOMAIN decls THEN Panic
           ELSE /\ decls' = Insert(decls, name, Item("Class", class.d))
                /\ declnames' = Append(declnames, name)
                /\ UNCHANGED pc
    /\ UNCHANGED <<anonnames, out, ev, rtvars>>

\* CursorKind::ObjCProtocolDecl
VisitProtocol(c) ==
    /\ Visiting(c)
    /\ c.availability # "NotAvailable"
    /\ c.kind = "ObjCProtocolDecl"
    /\ offered' = offered \cup Offers(c.name \o "Proto", c)
    /\ LET name == c.name \o "Proto"
           proto == ClassDeclRead(c)
       IN  IF proto.panic \/ name \in DOMAIN decls THEN Panic
           ELSE /\ decls' = Insert(decls, name, Item("Proto", proto.d))
                /\ declnames' = Append(declnames, name)
                /\ UNCHANGED pc
    /\ UNCHANGED <<anonnames, out, ev, rtvars>>

\* CursorKind::FunctionDecl
VisitFunction(c) ==
    /\ Visiting(c)
    /\ c.availability # "NotAvailable"
    /\ c.kind = "FunctionDecl"
    /\ LET decl == FunctionDeclRead(c)
           spelling == c.name
       IN  /\ decls' = Insert(decls, spelling, Item("Func", decl))
           /\ declnames' = IF spelling \in DOMAIN decls THEN declnames
                           ELSE Append(declnames, spelling)
    /\ offered' = {o \in offered : "func" \in DOMAIN o => o.func # c.name}
                      \cup {OffersFunction(c)}
    /\ UNCHANGED <<anonnames, pc, out, ev, rtvars>>

\* CursorKind::EnumDecl
VisitEnum(c) ==
    /\ VisitingType(c)
    /\ c.availability # "NotAvailable"
    /\ c.kind = "EnumDecl"
    /\ IF c.name = "" \/ ~c.is_definition
       THEN UNCHANGED <<decls, declnames, pc>>
       ELSE IF c.name \in DOMAIN decls THEN Panic
       ELSE /\ decls' = Insert(decls, c.name, Item("Enum", EnumDeclRead(c)))
            /\ declnames' = Append(declnames, c.name)
            /\ UNCHANGED pc
    /\ offered' = offered \cup {OffersType(c)}
    /\ UNCHANGED <<anonnames, out, ev, rtvars>>

RECURSIVE InsertRecords(_, _)
\* lines 1284-1298: every record read is inserted, replacing an older entry
InsertRecords(st, recs) ==
    IF recs = <<>> \/ st.panic THEN st
    ELSE LET d == Head(recs)
             declname == d.rustname
             old == declname \in DOMAIN st.decls
         IN  InsertRecords(
                [decls |-> Insert(st.decls, declname, Item("Record", d)),
                 declnames |-> IF old THEN st.declnames
                               ELSE Append(st.declnames, declname),
                 panic |-> old /\ st.decls[declname].item # "Record"],
                Tail(recs))

\* CursorKind::StructDecl | CursorKind::UnionDecl
VisitRecord(c) ==
    /\ VisitingType(c)
    /\ c.availability # "NotAvailable"
    /\ c.kind \in {"StructDecl", "UnionDecl"}
    /\ IF c.name = "" \/ (c.is_definition /\ c.name \in DOMAIN decls)
       THEN UNCHANGED <<decls, declnames, pc>>
       ELSE LET st == InsertRecords(
                        [decls |-> decls, declnames |-> declnames, panic |-> FALSE],
                        RecordDeclRead(c))
            IN  IF st.panic THEN Panic
                ELSE /\ decls' = st.decls
                     /\ declnames' = st.declnames
                     /\ UNCHANGED pc
    /\ offered' = offered \cup {OffersType(c)}
    /\ UNCHANGED <<anonnames, out, ev, rtvars>>

RemoveKey(m, k) == [x \in DOMAIN m \ {k} |-> m[x]]

TdState(ds, names, anon, standard, panic) ==
    [decls |-> ds, declnames |-> names, anonnames |-> anon,
     standard_typedef |-> standard, panic |-> panic]

DeclNameOfTag(c) == c.decl.name

\* lines 1306-1310: the name of the declaration behind the typedef, or the
\* typedef's own name when that declaration has none
DeclName(c) == IF c.decl.name = "" THEN c.name ELSE c.decl.name

\* lines 1311-1330: a typedef of an elaborated record type
TypedefOfRecord(ds, names, anon, c) ==
    LET decl_name == DeclName(c)
        exists == decl_name \in DOMAIN ds
        r == [RecordDeclRead(c.decl)[Len(RecordDeclRead(c.decl))]
                EXCEPT !.rustname = decl_name]
        ds1 == IF exists THEN ds ELSE Insert(ds, decl_name, Item("Record", r))
        anon1 == IF exists THEN anon ELSE Append(anon, <<c.decl.loc, decl_name>>)
        names1 == IF exists THEN names ELSE Append(names, decl_name)
        e == ds1[decl_name]
    IN  IF e.item # "Record" THEN TdState(ds1, names1, anon1, FALSE, TRUE)
        ELSE IF e.d.src = c.src /\ e.d.rustname = ""
        THEN TdState([ds1 EXCEPT ![decl_name].d.rustname = c.name], names1,
                     Append(anon1, <<c.decl.loc, c.name>>), FALSE, FALSE)
        ELSE TdState(ds1, names1, anon1, e.d.rustname # c.name, FALSE)

\* lines 1331-1351: a typedef of an elaborated enum type
TypedefOfEnum(ds, names, anon, c) ==
    LET decl_name == DeclName(c)
    IN  IF decl_name \in DOMAIN ds
        THEN LET i == ds[decl_name]
                 rest == RemoveKey(ds, decl_name)
             IN  IF i.item # "Enum" THEN TdState(rest, names, anon, FALSE, TRUE)
                 ELSE TdState(
                        Insert(rest, c.name, [i EXCEPT !.d.rustname = c.name]),
                        [k \in DOMAIN names |->
                            IF names[k] = i.d.rustname THEN c.name ELSE names[k]],
                        anon, FALSE, FALSE)
        ELSE IF c.decl.name = ""
        THEN TdState(Insert(ds, decl_name,
                            Item("Enum", [EnumDeclRead(c.decl) EXCEPT
                                            !.rustname = decl_name])),
                     Append(names, decl_name), anon, FALSE, FALSE)
        ELSE TdState(ds, names, anon, FALSE, FALSE)

\* lines 1359-1378: a typedef of a pointer to an anonymous record
TypedefOfPointer(ds, names, anon, c) ==
    LET found == {k \in DOMAIN anon : anon[k][1] = c.decl.loc}
        first == CHOOSE k \in found : \A j \in found : k <= j
        name == anon[first][2]
        read == TypedefDeclRead(c)
        decl == IF read.ty.k = "Pointer" /\ Inner(read.ty).k = "Record"
                THEN [read EXCEPT !.ty.inner = <<TRecord(name, Inner(read.ty).flag)>>]
                ELSE read
    IN  IF c.pointee_kind = "Record" /\ c.decl.name = "" /\ found # {}
        THEN TdState(Insert(ds, c.name, Item("Typedef", decl)),
                     Append(names, c.name), anon, FALSE, FALSE)
        ELSE TdState(ds, names, anon, FALSE, FALSE)

\* the match on ty.kind() of the TypedefDecl arm
TypedefMatch(ds, names, anon, c) ==
    CASE c.ty_kind = "Elaborated" /\ c.nty_kind = "Record" ->
            TypedefOfRecord(ds, names, anon, c)
      [] c.ty_kind = "Elaborated" /\ c.nty_kind = "Enum" ->
            TypedefOfEnum(ds, names, anon, c)
      [] c.ty_kind = "Typedef" -> TdState(ds, names, anon, TRUE, FALSE)
      [] c.ty_kind = "Pointer" -> TypedefOfPointer(ds, names, anon, c)
      [] OTHER -> TdState(ds, names, anon, FALSE, FALSE)

\* CursorKind::TypedefDecl
VisitTypedef(c) ==
    /\ VisitingType(c)
    /\ c.availability # "NotAvailable"
    /\ c.kind = "TypedefDecl"
    /\ LET st == TypedefMatch(decls, declnames, anonnames, c)
       IN  IF st.panic
           THEN /\ Panic
                /\ UNCHANGED anonnames
           ELSE /\ anonnames' = st.anonnames
                /\ UNCHANGED pc
                /\ IF ~st.standard_typedef
                   THEN /\ decls' = st.decls
                        /\ declnames' = st.declnames
                   ELSE /\ decls' = Insert(st.decls, c.name,
                                           Item("Typedef", TypedefDeclRead(c)))
                        /\ declnames' = IF c.name \in DOMAIN st.decls
                                        THEN st.declnames
                                        ELSE Append(st.declnames, c.name)
    /\ offered' = offered \cup {OffersType(c)}
    /\ UNCHANGED <<out, ev, rtvars>>

\* lines 1571 and 1830: the unit o with its selectors in each order the
\* HashSet `selectors` may yield them and its functions in each order
\* decls.values() may yield them
OrderedUnits(o) ==
    { [sels |-> sels, items |-> o.items, funcs |-> o.funcs,
       funcorder |-> funcorder, panic |-> o.panic] :
        sels \in { [i \in DOMAIN o.sels |-> o.sels[p[i]]] : p \in Orders(DOMAIN o.sels) },
        funcorder \in Orders({f.name : f \in o.funcs}) }

\* lines 1418-1426 with no sub-frameworks: the traversal is over and the
\* unit is emitted. The selectors are emitted in the order the HashSet
\* `selectors` yields them (line 1571) and the functions in the order
\* decls.values() yields them (line 1830).
GenFile ==
    /\ pc = "visit"
    /\ out' \in OrderedUnits(gen_file(decls, declnames, BasePath))
    /\ pc' = IF out'.panic THEN "panic" ELSE "done"
    /\ UNCHANGED <<decls, declnames, anonnames, nvisited, offered, ev, rtvars>>

(***************************************************************************)
(* Spec: translation units of interfaces, categories, protocols and        *)
(* functions.  Classes A and B, protocol P, a category on A; members m1,   *)
(* m2, property p with accessors getP and setP:, in every order.           *)
(***************************************************************************)
TInt32 == TInt(TRUE, 4)

IM(sel, availability, swift, result_ty, args) ==
    MethodCursor("ObjCInstanceMethodDecl", sel, availability, swift, <<>>,
                 result_ty, args)

M1 == IM(t_m1, "Available", FALSE, TVoid, <<>>)
M2 == IM(t_m2, "Available", FALSE, TVoid, <<>>)
M1Deprecated == IM(t_m1, "Deprecated", FALSE, TVoid, <<>>)
M1NotAvailable == IM(t_m1, "NotAvailable", FALSE, TVoid, <<>>)
M1Swift == IM(t_m1, "Available", TRUE, TVoid, <<>>)
M1DeprecatedSwift == IM(t_m1, "Deprecated", TRUE, TVoid, <<>>)
GetP == IM(t_getP, "Available", FALSE, TInt32, <<>>)
GetPSwift == IM(t_getP, "Available", TRUE, TInt32, <<>>)
SetP == IM(t_setP, "Available", FALSE, TVoid, <<[name |-> <<"v">>, ty |-> TInt32]>>)
PropP == PropertyCursor(<<"p">>, "Available", t_getP, t_setP, FALSE, FALSE, TInt32)
CM1 == MethodCursor("ObjCClassMethodDecl", t_m1, "Available", FALSE, <<>>, TVoid, <<>>)

\* every sequence without repetition over the members of S
RECURSIVE Arrangements(_)
Arrangements(S) ==
    {<<>>} \cup UNION { { <<x>> \o r : r \in Arrangements(S \ {x}) } : x \in S }

ChildSeqs ==
    Arrangements({PropP, GetP, SetP}) \cup Arrangements({M1, M2})
        \cup { <<M1Deprecated>>, <<M1NotAvailable>>, <<M1Swift>>, <<M1DeprecatedSwift>>,
               <<CM1>>,
               <<PropP, GetPSwift>> }

ClassCursors ==
    { TopCursor("ObjCInterfaceDecl", "A", LocalSrc, "Available", "", <<>>, 8, "", ch) :
        ch \in ChildSeqs }
    \cup
    { TopCursor("ObjCInterfaceDecl", "B", ForeignSrc, "Available", "A", <<"P">>, 8, "",
                ch) : ch \in {<<>>, <<M1>>, <<M2>>} }
    \cup
    { TopCursor("ObjCCategoryDecl", "Cat", LocalSrc, "Available", "", <<>>, 0, "A", ch) :
        ch \in ChildSeqs }
    \cup
    { TopCursor("ObjCProtocolDecl", "P", LocalSrc, "Available", "", <<>>, 0, "", ch) :
        ch \in ChildSeqs }
    \cup
    { TopCursor("ObjCInterfaceDecl", "A", LocalSrc, "NotAvailable", "", <<>>, 8, "",
                <<M1>>) }

FunctionCursors ==
    { FunctionCursor("f", LocalSrc, av[1], av[2], <<[name |-> t_x, ty |-> TInt32]>>,
                     TVoid, FALSE) :
        av \in { <<"Available", FALSE>>, <<"Deprecated", FALSE>>,
                 <<"Available", TRUE>>, <<"Deprecated", TRUE>>,
                 <<"NotAvailable", FALSE>> } }

Next ==
    \/ \E c \in ClassCursors \cup FunctionCursors : SkipUnavailable(c)
    \/ \E c \in ClassCursors : VisitCategory(c)
    \/ \E c \in ClassCursors : VisitInterface(c)
    \/ \E c \in ClassCursors : VisitProtocol(c)
    \/ \E c \in FunctionCursors : VisitFunction(c)
    \/ GenFile

Spec == Init /\ [][Next]_vars

(***************************************************************************)
(* SpecCall: one class Root whose methods range over the return types,     *)
(* ownership attributes and names that MethodDecl::gen_call tells apart,   *)
(* and a struct R for the methods that return a record by value.           *)
(***************************************************************************)
FieldCursor(name, ty) == [kind |-> "FieldDecl", name |-> name, ty |-> ty]

RecordCursor(kind, name, src, loc, availability, is_definition, children) ==
    [kind |-> kind, name |-> name, src |-> src, loc |-> loc,
     availability |-> availability, is_definition |-> is_definition,
     children |-> children]

StructR == RecordCursor("StructDecl", "R", LocalSrc, "L9", "Available", TRUE,
                        <<FieldCursor(t_x, TInt32)>>)

ObjectTypes ==
    { TPointer(TInstanceType(TRUE), TRUE, FALSE),
      TPointer(TClass("Root"), FALSE, FALSE),
      TPointer(TId(FALSE, ""), FALSE, FALSE) }

ReturnTypes ==
    ObjectTypes \cup
    { TVoid, TBool, TFloat(4), TFloat(8), TRecord("R", FALSE),
      TPointer(TInt(TRUE, 1), FALSE, TRUE), TPointer(TInt(TRUE, 1), TRUE, TRUE) }

AttrSeqs ==
    { <<>>, <<"NSReturnsRetained">>, <<"NSReturnsNotRetained">>,
      <<"NSReturnsRetained", "NSReturnsAutoreleased">>,
      <<"NSConsumesSelf", "NSReturnsRetained">>, <<"ObjCReturnsInnerPointer">> }

CallMethods ==
    { MethodCursor(kind, name, "Available", FALSE, attrs, ret, <<>>) :
        kind \in {"ObjCClassMethodDecl", "ObjCInstanceMethodDecl"},
        name \in {t_init, t_new, t_isProxy},
        attrs \in AttrSeqs,
        ret \in ReturnTypes }
    \cup
    { MethodCursor("ObjCInstanceMethodDecl", t_initX, "Available", FALSE,
                   <<"NSConsumesSelf", "NSReturnsRetained">>, ret,
                   <<[name |-> t_as, ty |-> TInt32]>>) : ret \in ObjectTypes }

\* a class method `new` followed by the instance method isProxy, or by
\* the initializer `init`
RootPairs ==
    { << MethodCursor("ObjCClassMethodDecl", t_new, "Available", FALSE, attrs, ret,
                      <<>>),
         second >> :
        attrs \in AttrSeqs, ret \in ObjectTypes,
        second \in { MethodCursor("ObjCInstanceMethodDecl", t_isProxy, "Available",
                                  FALSE, <<>>, TBool, <<>>),
                     MethodCursor("ObjCInstanceMethodDecl", t_init, "Available", FALSE,
                                  <<"NSConsumesSelf", "NSReturnsRetained">>,
                                  TPointer(TInstanceType(TRUE), TRUE, FALSE), <<>>) } }

CallCursors ==
    { TopCursor("ObjCInterfaceDecl", "Root", LocalSrc, "Available", "", <<>>, 8, "",
                ch) : ch \in { <<m>> : m \in CallMethods } \cup RootPairs }

\* void g(struct R *p), declared in a header of the framework
FunctionOfR ==
    FunctionCursor("g", LocalSrc, "Available", FALSE,
                   <<[name |-> <<"p">>, ty |-> TPointer(TRecord("R", FALSE), FALSE, FALSE)]>>,
                   TVoid, FALSE)

NextCall ==
    \/ VisitRecord(StructR)
    \/ \E c \in CallCursors : VisitInterface(c)
    \/ VisitFunction(FunctionOfR)
    \/ GenFile

SpecCall == Init /\ [][NextCall]_vars

(***************************************************************************)
(* SpecTypes: translation units of struct, union, enum and typedef         *)
(* declarations.                                                           *)
(***************************************************************************)
Struct(name, loc, is_definition, children) ==
    RecordCursor("StructDecl", name, LocalSrc, loc, "Available", is_definition,
                 children)

EnumConstant(name, value) == [kind |-> "EnumConstantDecl", name |-> name, value |-> value]

EnumCursor(name, loc, is_definition, enum_ty, children) ==
    [kind |-> "EnumDecl", name |-> name, src |-> LocalSrc, loc |-> loc,
     availability |-> "Available", is_definition |-> is_definition,
     enum_ty |-> enum_ty, children |-> children]

TypedefCursor(name, ty_kind, nty_kind, pointee_kind, decl, ty) ==
    [kind |-> "TypedefDecl", name |-> name, src |-> LocalSrc,
     availability |-> "Available", ty_kind |-> ty_kind, nty_kind |-> nty_kind,
     pointee_kind |-> pointee_kind, decl |-> decl, ty |-> ty]

FieldX == FieldCursor(t_x, TInt32)
FieldY == FieldCursor(<<"y">>, TInt32)

\* struct { int x; } at two places of the header
AnonL2 == Struct("", "L2", TRUE, <<FieldX>>)
AnonL3 == Struct("", "L3", TRUE, <<FieldX>>)
\* struct Foo { int y; } and its forward declaration
FooDef == Struct("Foo", "L1", TRUE, <<FieldY>>)
FooFwd == Struct("Foo", "L0", FALSE, <<>>)
\* struct Outer { struct Inner { int y; } in; struct { int x; } an;
\*                int : 3; int x; }
Outer ==
    Struct("Outer", "L4", TRUE,
           << Struct("Inner", "L5", TRUE, <<FieldY>>),
              FieldCursor(<<"i", "n">>, TRecord("Inner", FALSE)),
              Struct("", "L6", TRUE, <<FieldX>>),
              FieldCursor(<<"a", "n">>, TRecord("", FALSE)),
              FieldCursor(<<>>, TInt32),
              FieldX >>)
UnionBar == RecordCursor("UnionDecl", "Bar", LocalSrc, "L7", "Available", TRUE,
                         <<FieldX, FieldCursor(<<"f">>, TFloat(4))>>)
HiddenStruct == RecordCursor("StructDecl", "Hid", LocalSrc, "L8", "NotAvailable",
                             TRUE, <<FieldX>>)

\* struct Holder { struct { int x; } *p; enum { c = 1 } e;
\*                 struct { int x; } aa[2][2]; }
Holder ==
    Struct("Holder", "L12", TRUE,
           << Struct("", "L13", TRUE, <<FieldX>>),
              FieldCursor(<<"p">>, TPointer(TRecord("", FALSE), FALSE, FALSE)),
              FieldCursor(<<"e">>, TEnum("")),
              Struct("", "L14", TRUE, <<FieldX>>),
              FieldCursor(<<"a", "a">>,
                          TFixedArray(TFixedArray(TRecord("", FALSE), 2), 2)) >>)

\* struct W { struct { int y; }; int x; }: the anonymous struct is a
\* declaration child followed by the unnamed field that holds it
Wrapper ==
    Struct("W", "L15", TRUE,
           << Struct("", "L16", TRUE, <<FieldY>>),
              FieldCursor(<<>>, TRecord("", FALSE)),
              FieldX >>)

EnumEN == EnumCursor("EN", "L10", TRUE, TLong(TRUE),
                     <<EnumConstant("a", 0), EnumConstant("b", -1)>>)
EnumAnon == EnumCursor("", "L11", TRUE, TLong(FALSE), <<EnumConstant("c", 1)>>)

\* struct E2 { int x; }: a tag that is also the name of the typedef E2
StructE2 == Struct("E2", "L17", TRUE, <<FieldX>>)

TypeCursors ==
    { AnonL2, AnonL3, FooDef, FooFwd, Outer, Holder, Wrapper, UnionBar, HiddenStruct, EnumEN,
      EnumAnon, StructE2,
      \* typedef struct { int x; } Foo, Foo2;   (the record at L2)
      TypedefCursor("Foo", "Elaborated", "Record", "", AnonL2, TRecord("", FALSE)),
      TypedefCursor("Foo2", "Elaborated", "Record", "", AnonL2, TRecord("", FALSE)),
      \* typedef struct { int x; } Baz;         (the record at L3)
      TypedefCursor("Baz", "Elaborated", "Record", "", AnonL3, TRecord("", FALSE)),
      \* typedef struct Foo Foo; typedef struct Foo FooT; typedef Foo Alias;
      TypedefCursor("Foo", "Elaborated", "Record", "", FooDef, TRecord("Foo", FALSE)),
      TypedefCursor("FooT", "Elaborated", "Record", "", FooDef, TRecord("Foo", FALSE)),
      TypedefCursor("Alias", "Typedef", "", "", FooDef, TRecord("Foo", FALSE)),
      \* typedef struct { int x; } *FooPtr;     (the record at L2)
      TypedefCursor("FooPtr", "Pointer", "", "Record", AnonL2,
                    TPointer(TRecord("", FALSE), FALSE, FALSE)),
      \* typedef enum { c = 1 } E; typedef enum EN E2; typedef int MyInt;
      TypedefCursor("E", "Elaborated", "Enum", "", EnumAnon, TEnum("")),
      TypedefCursor("E2", "Elaborated", "Enum", "", EnumEN, TEnum("EN")),
      TypedefCursor("MyInt", "Int", "", "", FooDef, TInt32) }

NextTypes ==
    \/ \E c \in TypeCursors : SkipUnavailable(c)
    \/ \E c \in TypeCursors : VisitEnum(c)
    \/ \E c \in TypeCursors : VisitRecord(c)
    \/ \E c \in TypeCursors : VisitTypedef(c)
    \/ GenFile

SpecTypes == Init /\ [][NextTypes]_vars

(***************************************************************************)
(* SpecEnum: EnumDecl::read and the writing of the variants, applied to an *)
(* enum of one or two constants over the whole range of values.            *)
(***************************************************************************)
EnumInputs ==
    { EnumCursor("E", "L1", TRUE, TLong(TRUE), cs) :
        cs \in { <<EnumConstant("c1", v)>> : v \in MinSigned..MaxSigned }
               \cup { <<EnumConstant("c1", v), EnumConstant("c2", w)>> :
                        v \in MinSigned..MaxSigned, w \in MinSigned..MaxSigned } }
    \cup
    { EnumCursor("E", "L1", TRUE, TLong(FALSE), cs) :
        cs \in { <<EnumConstant("c1", v)>> : v \in 0..MaxUnsigned }
               \cup { <<EnumConstant("c1", v), EnumConstant("c2", w)>> :
                        v \in 0..MaxUnsigned, w \in 0..MaxUnsigned } }

InitEnum ==
    /\ decls = EmptyMap
    /\ declnames = <<>>
    /\ anonnames = <<>>
    /\ nvisited = 0
    /\ offered = {}
    /\ pc = "visit"
    /\ out = NoOut
    /\ \E c \in EnumInputs : ev = [phase |-> "cursor", c |-> c]
    /\ DriverIdle
    /\ ArcIdle
    /\ PoolIdle
    /\ RerunIdle

ReadEnum ==
    /\ ev.phase = "cursor"
    /\ ev' = [phase |-> "read", c |-> ev.c, decl |-> EnumDeclRead(ev.c)]
    /\ UNCHANGED <<decls, declnames, anonnames, nvisited, offered, pc, out, rtvars>>

WriteEnum ==
    /\ ev.phase = "read"
    /\ ev' = [phase |-> "written", c |-> ev.c, decl |-> ev.decl,
              literals |-> [i \in DOMAIN ev.decl.variants |->
                              [name |-> ev.decl.variants[i].name,
                               value |-> VariantLiteral(ev.decl.variants[i])]]]
    /\ UNCHANGED <<decls, declnames, anonnames, nvisited, offered, pc, out, rtvars>>

NextEnum == ReadEnum \/ WriteEnum

SpecEnum == InitEnum /\ [][NextEnum]_vars

(***************************************************************************)
(* Properties.                                                             *)
(***************************************************************************)
\* the emitted classes and protocols, and the emitted bindings of each
ClassItems ==
    { out.items[i] : i \in { j \in DOMAIN out.items : out.items[j].item = "Class" } }

MethodItems ==
    { out.items[i] :
        i \in { j \in DOMAIN out.items : out.items[j].item \in {"Class", "Proto"} } }

\* the catalogued declaration that the emitted binding x of entry k was
\* generated from
MethodOf(k, x) ==
    LET d == decls[k].d
    IN  CASE x.origin = "cmethod" -> d.cmethods[x.key]
          [] x.origin = "imethod" -> d.imethods[x.key]
          [] x.origin = "getter" -> Unwrap(d.iprops[x.key].getter_method)
          [] x.origin = "setter" -> Unwrap(d.iprops[x.key].setter_method)

Count(seq, v) == Cardinality({i \in DOMAIN seq : seq[i] = v})

HandleSteps == {"Arc::new", "Arc::new_unchecked"}

\* the statements of `finish` that precede the construction of the handle
BeforeHandle(finish) ==
    LET at == {i \in DOMAIN finish : finish[i] \in HandleSteps}
    IN  IF at = {} THEN finish
        ELSE SubSeq(finish, 1, (CHOOSE i \in at : \A j \in at : i <= j) - 1)

\* the history's verdict on a declaration: unavailable, or available with
\* an unavailable attribute for the target-language platform
Unavailable(o) ==
    \/ o.availability = "NotAvailable"
    \/ o.availability = "Available" /\ o.swift_unavailable

OfferedMethods == {o \in offered : "sel" \in DOMAIN o}
OfferedFunctions == {o \in offered : "func" \in DOMAIN o}
OfferedTypes == {o \in offered : "decl" \in DOMAIN o}

\* C1: every emitted binding of a method with an object-pointer result runs,
\* between the dispatch and the construction of the handle, exactly one
\* ownership claim and no retain when the result is Autoreleased, exactly
\* one retain when it is NotRetained, and neither when it is Retained.
C1_OwnershipSteps ==
    \A it \in ClassItems : \A x \in it.methods :
        LET m == MethodOf(it.key, x)
            steps == BeforeHandle(x.call.finish)
            claims == Count(steps, "objc_retainAutoreleasedReturnValue")
            retains == Count(steps, "objc_retain")
        IN  is_objc_object(m.retty) =>
                /\ m.ret_own = "Autoreleased" => claims = 1 /\ retains = 0
                /\ m.ret_own = "NotRetained" => retains = 1
                /\ m.ret_own = "Retained" => claims = 0 /\ retains = 0

\* C2: once the interface of A is in the catalog, every method m1 or m2 that
\* the interface or a category on A declared (and the header leaves
\* available) is held by the one entry of A, whichever of the interface and
\* the category was visited first.
C2_CategoryMerge ==
    ("A" \in DOMAIN decls /\ pc # "panic") =>
        /\ decls["A"].item = "Class"
        /\ \A o \in OfferedMethods :
              (o.owner = "A" /\ ~o.class /\ ~Unavailable(o) /\ o.sel \in {t_m1, t_m2})
                  => o.sel \in DOMAIN decls["A"].d.imethods

\* C3: a method absorbed into the getter or setter slot of an instance
\* property is not also in the instance-method map of its class, and no
\* class is emitted with two bindings of one selector.
C3_OneBindingPerSelector ==
    /\ \A k \in DOMAIN decls :
          decls[k].item = "Class" =>
              \A p \in DOMAIN decls[k].d.iprops :
                  LET q == decls[k].d.iprops[p]
                  IN  /\ IsSome(q.getter_method) => q.getter \notin DOMAIN decls[k].d.imethods
                      /\ IsSome(q.setter_method) =>
                            Unwrap(q.setter) \notin DOMAIN decls[k].d.imethods
    /\ \A it \in ClassItems : \A x, y \in it.methods :
          x.call.sel = y.call.sel => x = y

\* C4: every emitted call site names a selector slot, the emitted unit holds
\* exactly one slot for that selector text, and the slot's name is the one
\* the call site refers to, however many declarations share the selector.
C4_OneSlotPerSelector ==
    \A it \in MethodItems : \A x \in it.methods :
        LET slots == {i \in DOMAIN out.sels : out.sels[i].text = x.call.sel}
        IN  /\ Cardinality(slots) = 1
            /\ \A i \in slots : out.sels[i].name = x.call.selname

\* two call sites, in a class and in a protocol, that share the one slot
C4_Witness ==
    \E it1, it2 \in MethodItems :
        /\ it1 # it2
        /\ \E x \in it1.methods : \E y \in it2.methods :
              /\ x.call.sel = t_m1
              /\ y.call.sel = t_m1
              /\ Cardinality({i \in DOMAIN out.sels : out.sels[i].text = t_m1}) = 1

\* the typedef `Foo` of the anonymous struct { int x; } at L2
IsTypedefFooOfAnon(o) ==
    /\ o.decl = "TypedefDecl"
    /\ o.name = "Foo"
    /\ o.of = <<"Elaborated", "Record", "", "L2">>

\* the unit uses the name Foo for that typedef alone: no other declaration
\* is named Foo and no other typedef names a declaration tagged Foo
FooOfAnonAlone ==
    /\ \E o \in OfferedTypes : IsTypedefFooOfAnon(o)
    /\ \A o \in OfferedTypes :
          (o.name = "Foo" \/ (o.decl = "TypedefDecl" /\ o.of[3] = "Foo"))
              => IsTypedefFooOfAnon(o)

FooRecords ==
    {k \in DOMAIN decls : decls[k].item = "Record" /\ decls[k].d.rustname = "Foo"}

\* C5: after any sequence of struct, union, enum and typedef declarations
\* no catalog key and no catalogued record name is empty; and when the unit
\* names Foo only by a typedef of the anonymous struct { int x; }, the
\* catalog holds exactly one record named Foo, whose only field is x.
C5_NoEmptyNames ==
    /\ \A k \in DOMAIN decls :
          /\ k # ""
          /\ decls[k].item = "Record" => decls[k].d.rustname # ""
    /\ \A i \in DOMAIN declnames : declnames[i] # ""
    /\ FooOfAnonAlone =>
          /\ Cardinality(FooRecords) = 1
          /\ \A k \in FooRecords :
                decls[k].d.fields = <<[name |-> t_x, ty |-> TInt32]>>

\* the anonymous struct was passed over, its typedef Foo produced the record
C5_Witness ==
    /\ FooOfAnonAlone
    /\ \E o \in OfferedTypes : o.decl = "StructDecl" /\ o.name = ""
    /\ "Foo" \in DOMAIN decls
    /\ decls["Foo"].d.fields = <<[name |-> t_x, ty |-> TInt32]>>
    /\ pc = "done"

\* the constant of the enum that variant v was read from
ConstantOf(c, v) ==
    c.children[CHOOSE i \in DOMAIN c.children : c.children[i].name = v.name]

\* C6: EnumDecl::read stores for every constant a (magnitude, isNegative)
\* pair that re-encodes to the constant's value, the magnitude being the
\* absolute value also at the two's-complement minimum; under an unsigned
\* backing type the magnitude is the value and isNegative is false; the
\* literal written for the variant is the constant's value.
C6_EnumRoundTrip ==
    ev.phase \in {"read", "written"} =>
        /\ \A i \in DOMAIN ev.c.children :
              \E j \in DOMAIN ev.decl.variants :
                  VariantLiteral(ev.decl.variants[j]) = ev.c.children[i].value
        /\ \A j \in DOMAIN ev.decl.variants :
              LET v == ev.decl.variants[j]
                  value == ConstantOf(ev.c, v).value
              IN  /\ (IF v.neg THEN -v.val ELSE v.val) = value
                  /\ v.val = (IF value < 0 THEN -value ELSE value)
                  /\ v.val \in 0..MaxUnsigned
                  /\ ~is_signed(ev.c.enum_ty) => v.val = value /\ ~v.neg
        /\ ev.phase = "written" =>
              \A j \in DOMAIN ev.literals :
                  \E i \in DOMAIN ev.c.children :
                      /\ ev.c.children[i].name = ev.literals[j].name
                      /\ ev.c.children[i].value = ev.literals[j].value

\* a signed enum whose constant is the minimum, written back
C6_Witness ==
    /\ ev.phase = "written"
    /\ is_signed(ev.c.enum_ty)
    /\ \E j \in DOMAIN ev.decl.variants :
          /\ ConstantOf(ev.c, ev.decl.variants[j]).value = MinSigned
          /\ ev.decl.variants[j].neg
          /\ ev.decl.variants[j].val = MaxSigned + 1
          /\ ev.literals[j].value = MinSigned

\* the catalog of the end-to-end case: class Root without superclass, class
\* method new (Retained, nonnull object result), instance method isProxy
\* returning a boolean
RootCatalog ==
    /\ DOMAIN decls = {"Root"}
    /\ decls["Root"].item = "Class"
    /\ LET d == decls["Root"].d
       IN  /\ d.superclass = ""
           /\ DOMAIN d.cmethods = {t_new}
           /\ DOMAIN d.imethods = {t_isProxy}
           /\ DOMAIN d.iprops = {}
           /\ DOMAIN d.cprops = {}
           /\ d.cmethods[t_new].ret_own = "Retained"
           /\ is_objc_object(d.cmethods[t_new].retty)
           /\ is_nonnull(d.cmethods[t_new].retty)
           /\ d.imethods[t_isProxy].retty = TBool

\* C7: from the catalog of class Root with class method new and instance
\* method isProxy, generation emits one class, two selector slots, a binding
\* new without receiver parameter that returns the object handle, and a
\* binding isProxy that takes only the receiver and returns bool.
C7_RootEndToEnd ==
    (RootCatalog /\ pc = "done") =>
        /\ Len(out.items) = 1
        /\ Cardinality(ClassItems) = 1
        /\ Len(out.sels) = 2
        /\ \A it \in ClassItems :
              /\ it.name = "Root"
              /\ Cardinality(it.methods) = 2
              /\ \E x \in it.methods :
                    /\ x.call.mname = t_new
                    /\ x.call.sel = t_new
                    /\ ~x.call.self_param
                    /\ x.call.params = <<>>
                    /\ x.call.ret.c = "Arc"
                    /\ x.call.finish = <<"Arc::new_unchecked">>
              /\ \E x \in it.methods :
                    /\ x.call.mname = t_isProxy
                    /\ x.call.sel = t_isProxy
                    /\ x.call.self_param
                    /\ x.call.params = <<>>
                    /\ x.call.ret = RPrim("bool")

C7_Witness ==
    /\ RootCatalog
    /\ pc = "done"
    /\ Len(out.sels) = 2
    /\ \E it \in ClassItems : Cardinality(it.methods) = 2

\* C8: an emitted class method dispatches against the class reference; an
\* emitted instance method with consumes_self whose selector begins with
\* "init" has no receiver parameter and dispatches against a fresh instance
\* from objc_allocWithZone; every other emitted instance method has the
\* receiver parameter and dispatches against it.
C8_ReceiverResolution ==
    \A it \in ClassItems : \A x \in it.methods :
        LET m == MethodOf(it.key, x)
        IN  IF x.origin = "cmethod"
            THEN x.call.get_obj = "classref"
            ELSE IF m.consumes_self /\ IsPrefix(t_init, x.call.sel)
            THEN ~x.call.self_param /\ x.call.get_obj = "objc_allocWithZone"
            ELSE x.call.self_param /\ x.call.get_obj = "self"

\* an initializer with an argument, emitted as a constructor
C8_Witness ==
    \E it \in ClassItems : \E x \in it.methods :
        /\ x.origin = "imethod"
        /\ x.call.sel = t_initX
        /\ x.call.get_obj = "objc_allocWithZone"
        /\ ~x.call.self_param
        /\ Len(x.call.params) = 1

\* C9: the dispatch entry of every emitted binding follows the category of
\* the return type: objc_msgSend_fpret for a floating-point result,
\* objc_msgSend_stret for a record returned by value, objc_msgSend for
\* every other result.
C9_DispatchEntry ==
    \A it \in ClassItems : \A x \in it.methods :
        LET m == MethodOf(it.key, x)
        IN  x.call.msgsend =
                CASE m.retty.k = "Float" -> "objc_msgSend_fpret"
                  [] m.retty.k = "Record" -> "objc_msgSend_stret"
                  [] OTHER -> "objc_msgSend"

\* C10: every emitted method or accessor binding, and every emitted
\* function, comes from a declaration that is neither unavailable nor
\* available with an unavailable attribute for the target language; and a
\* catalogued declaration that is only deprecated is emitted.
C10_AvailabilityGate ==
    /\ \A it \in MethodItems : \A x \in it.methods :
          \E o \in OfferedMethods :
              /\ o.owner = it.key
              /\ o.class = (x.origin = "cmethod")
              /\ o.sel = x.call.sel
              /\ ~Unavailable(o)
    /\ \A f \in out.funcs :
          \E o \in OfferedFunctions : o.func = f.name /\ ~Unavailable(o)
    /\ pc = "done" =>
          /\ \A o \in OfferedFunctions :
                (o.availability = "Deprecated" /\ ~o.swift_unavailable)
                    => \E f \in out.funcs : f.name = o.func
          /\ \A it \in MethodItems :
                \A o \in OfferedMethods :
                    (/\ o.owner = it.key
                     /\ o.availability = "Deprecated"
                     /\ ~o.swift_unavailable
                     /\ o.sel \in DOMAIN decls[it.key].d.imethods)
                        => \E x \in it.methods : x.call.sel = o.sel

\* a class whose only method is unavailable for the target language is
\* emitted without bindings, next to a deprecated function
C10_Witness ==
    /\ pc = "done"
    /\ \E o \in OfferedMethods :
          o.owner = "A" /\ o.availability = "Available" /\ o.swift_unavailable
    /\ \E it \in ClassItems : it.key = "A" /\ it.methods = {}
    /\ \E o \in OfferedFunctions : o.availability = "Deprecated"
    /\ out.funcs # {}

(***************************************************************************)
(* SpecSig: signatures.  One class Root whose method takes one or two      *)
(* arguments, and functions f, plain or variadic; the argument types are   *)
(* an integer, the va_list array and pointers to pointers.                 *)
(***************************************************************************)
\* __va_list_tag[1], the type Type::is_va_list recognises
TVaList == TFixedArray(TRecord("__va_list_tag", FALSE), 1)

\* id *, nonnull and nullable: an out-parameter
TOutParam(nonnull) == TPointer(TPointer(TId(FALSE, ""), FALSE, FALSE), nonnull, FALSE)

SigTypes == {TInt32, TVaList, TOutParam(TRUE), TOutParam(FALSE)}

\* a declaration that repeats the argument name a, and one that also uses
\* the name a_2
RepeatedArgs ==
    { <<[name |-> <<"a">>, ty |-> TInt32], [name |-> <<"a">>, ty |-> TInt32]>>,
      <<[name |-> <<"a">>, ty |-> TInt32], [name |-> <<"a">>, ty |-> TInt32],
        [name |-> <<"a", "_", "2">>, ty |-> TInt32]>> }

SigArgs ==
    RepeatedArgs \cup
    { <<[name |-> <<"a">>, ty |-> t]>> : t \in SigTypes }
    \cup { <<[name |-> <<"a">>, ty |-> t], [name |-> <<"b">>, ty |-> u]>> :
             t \in SigTypes, u \in SigTypes }

\* - (void)f:(int)a;  - (void)f_;
ColonAndUnderscore ==
    << MethodCursor("ObjCInstanceMethodDecl", <<"f", ":">>, "Available", FALSE, <<>>,
                    TVoid, <<[name |-> <<"a">>, ty |-> TInt32]>>),
       MethodCursor("ObjCInstanceMethodDecl", <<"f", "_">>, "Available", FALSE, <<>>,
                    TVoid, <<>>) >>

SigCursors ==
    { TopCursor("ObjCInterfaceDecl", "Root", LocalSrc, "Available", "", <<>>, 8, "",
                << MethodCursor(kind, t_m1, "Available", FALSE, <<>>, TVoid, args) >>) :
        kind \in {"ObjCClassMethodDecl", "ObjCInstanceMethodDecl"}, args \in SigArgs }
    \cup
    { TopCursor("ObjCInterfaceDecl", "Root", LocalSrc, "Available", "", <<>>, 8, "",
                ColonAndUnderscore) }

SigFunctions ==
    { FunctionCursor("f", LocalSrc, "Available", FALSE, args, TVoid, variadic) :
        args \in {<<>>} \cup { <<[name |-> <<"a">>, ty |-> t]>> : t \in SigTypes },
        variadic \in BOOLEAN }

NextSig ==
    \/ \E c \in SigCursors : VisitInterface(c)
    \/ \E c \in SigFunctions : VisitFunction(c)
    \/ GenFile

SpecSig == Init /\ [][NextSig]_vars

\* C11: no emitted function is variadic or takes a va_list argument, and no
\* emitted method binding takes a va_list argument.
C11_NoVariadic ==
    /\ \A f \in out.funcs :
          /\ ~decls[f.name].d.variadic
          /\ ~f.variadic
          /\ \A i \in DOMAIN decls[f.name].d.args :
                ~is_va_list(decls[f.name].d.args[i].ty)
    /\ \A it \in MethodItems : \A x \in it.methods :
          \A i \in DOMAIN MethodOf(it.key, x).args :
              ~is_va_list(MethodOf(it.key, x).args[i].ty)

\* the statements gen_call writes after the dispatch: all of them act on
\* the result _ret
ReturnSteps ==
    {"objc_retainAutoreleasedReturnValue", "Arc::new", "Arc::new_unchecked", "deref",
     "deref_or_none"}

IsPointerToPointer(t) == t.k = "Pointer" /\ Inner(t).k = "Pointer"

\* C20: for every pointer-to-pointer argument the emitted binding declares a
\* temporary initialised to null before the dispatch, passes the address of
\* the temporary (or null when a nullable argument is absent), and after the
\* dispatch holds a statement that reads the temporary back, that is a
\* statement other than those that act on the result.
C20_OutParameter ==
    \A it \in MethodItems : \A x \in it.methods :
        LET m == MethodOf(it.key, x)
        IN  \A i \in DOMAIN m.args :
                IsPointerToPointer(m.args[i].ty) =>
                    /\ \E j \in DOMAIN x.call.setup :
                          /\ x.call.setup[j].stmt = "let_null"
                          /\ x.call.setup[j].temp = t_temp \o m.args[i].name
                    /\ x.call.args[i].temp = t_temp \o m.args[i].name
                    /\ x.call.args[i].e =
                          (IF m.args[i].ty.flag THEN "temp_addr" ELSE "temp_addr_or_null")
                    /\ \E j \in DOMAIN x.call.finish : x.call.finish[j] \notin ReturnSteps

\* C12: a name that is in the catalog keeps its first definition: no step
\* of the traversal removes the entry, changes its kind or, except for the
\* merge of a category into a class, changes its content.
C12_FirstDefinitionKept ==
    [][\A k \in DOMAIN decls :
          /\ k \in DOMAIN decls'
          /\ decls'[k].item = decls[k].item
          /\ decls[k].item # "Class" => decls'[k] = decls[k]]_vars

\* C13: an error raised by one declaration is local: the traversal is never
\* aborted (pc = "panic" before anything has been emitted), it goes on to
\* the end of the unit.
C13_ErrorsAreLocal == ~(pc = "panic" /\ out = NoOut)

\* the typedef `name` of the anonymous struct { int x; } at location loc
TypedefOfAnon(name, loc) ==
    [decl |-> "TypedefDecl", name |-> name,
     of |-> <<"Elaborated", "Record", "", loc>>]

\* the catalog keys that hold a record
RecordKeys == {k \in DOMAIN decls : decls[k].item = "Record"}

\* C15: when the unit consists of typedefs of anonymous records only, the
\* record at L2 that underlies the two typedefs Foo and Foo2 has one record
\* entry in the catalog, and the structurally identical records at L2 and
\* L3 (typedef Baz) have two distinct record entries.
C15_AnonymousRecordOnce ==
    (\A o \in offered : \E n \in {"Foo", "Foo2", "Baz"}, l \in {"L2", "L3"} :
            o = TypedefOfAnon(n, l))
        => /\ ({TypedefOfAnon("Foo", "L2"), TypedefOfAnon("Foo2", "L2")} \subseteq offered
                  => Cardinality(RecordKeys \cap {"Foo", "Foo2"}) = 1)
           /\ ({TypedefOfAnon("Foo", "L2"), TypedefOfAnon("Baz", "L3")} \subseteq offered
                  => {"Foo", "Baz"} \subseteq RecordKeys)

(***************************************************************************)
(* The build driver: src/build.rs, main.                                   *)
(***************************************************************************)
Frameworks == {"Foundation", "CoreFoundation", "Security"}

MaxInvocations == 4     \* calls of bind_framework in one run of the driver

\* the SDKs of the model: every import relation over Frameworks, cyclic and
\* self-referencing ones included, and every set of frameworks whose
\* headers cannot be bound
Sdks ==
    [imports : [Frameworks -> SUBSET Frameworks], fatal : SUBSET Frameworks]

\* build.rs line 42: the filter in front of deps.push
ShouldPushUnlessQueued(d, dn, ds) == ~(\E i \in DOMAIN ds : ds[i] = d)

ShouldPush(d, dn, ds) == d \notin dn /\ ~(\E i \in DOMAIN ds : ds[i] = d)

\* build.rs lines 41-45: for d in &newdeps { ... deps.push(d.clone()) }
RECURSIVE PushNew(_, _, _)
PushNew(ds, dn, newdeps) ==
    IF newdeps = <<>> THEN ds
    ELSE PushNew(IF ShouldPush(Head(newdeps), dn, ds)
                 THEN Append(ds, Head(newdeps)) ELSE ds,
                 dn, Tail(newdeps))

\* bind_framework: clang::load().unwrap(), Index::new().unwrap(),
\* parse_tu(..).unwrap() and, in gen_file, File::create(..).unwrap() panic
\* on failure; otherwise the set of imported frameworks is returned
BindFrameworkPanics(f) == f \in sdk.fatal

BindFrameworkDeps(f) == sdk.imports[f]

\* build.rs lines 27-36: top.rs is created, done is empty, deps holds the
\* frameworks to start from
InitDriver ==
    /\ decls = EmptyMap
    /\ declnames = <<>>
    /\ anonnames = <<>>
    /\ nvisited = 0
    /\ offered = {}
    /\ pc = "visit"
    /\ out = NoOut
    /\ ev = NoEnum
    /\ ArcIdle
    /\ PoolIdle
    /\ RerunIdle
    /\ sdk \in Sdks
    /\ deps = <<"Foundation">>
    /\ done = {}
    /\ top = <<>>
    /\ invoked = <<>>
    /\ mainpc = "loop"

\* build.rs lines 37-46, one turn of `while let Some(f) = deps.pop()`
LoopTurn ==
    /\ mainpc = "loop"
    /\ deps # <<>>
    /\ Len(invoked) < MaxInvocations
    /\ LET f == deps[Len(deps)]
           rest == SubSeq(deps, 1, Len(deps) - 1)
       IN  /\ invoked' = Append(invoked, f)
           /\ IF BindFrameworkPanics(f)
              THEN /\ mainpc' = "panic"
                   /\ deps' = rest
                   /\ UNCHANGED <<top, done>>
              ELSE /\ top' = Append(top, f)
                   /\ done' = done \cup {f}
                   /\ \E newdeps \in Orders(BindFrameworkDeps(f)) :
                         deps' = PushNew(rest, done \cup {f}, newdeps)
                   /\ UNCHANGED mainpc
    /\ UNCHANGED <<sdk, genvars, arcvars, poolvars>>

\* build.rs line 37: deps.pop() returns None and the loop is left
LoopEnd ==
    /\ mainpc = "loop"
    /\ deps = <<>>
    /\ mainpc' = "end"
    /\ UNCHANGED <<sdk, deps, done, top, invoked, genvars, arcvars, poolvars>>

NextDriver == LoopTurn \/ LoopEnd

SpecDriver == InitDriver /\ [][NextDriver]_vars

\* main is one sequential program: while it can take a step it takes it
FairSpecDriver == SpecDriver /\ WF_vars(NextDriver)

\* the frameworks bind_framework has been called with
Invoked == {invoked[i] : i \in DOMAIN invoked}

\* the frameworks still in the worklist
Pending == {deps[i] : i \in DOMAIN deps}

\* C14: a fatal failure while one framework is bound does not stop the
\* driver: it stops only when no framework is left pending, and then the
\* line of every framework that was bound is in top.rs.
C14_FailureAbortsOneFramework ==
    mainpc # "loop" =>
        /\ Pending = {}
        /\ \A f \in done : \E i \in DOMAIN top : top[i] = f

\* the frameworks reachable from the frameworks in S through the imports
RECURSIVE ReachableFrom(_)
ReachableFrom(S) ==
    LET T == S \cup UNION {sdk.imports[f] : f \in S}
    IN  IF T = S THEN S ELSE ReachableFrom(T)

\* C16: for every import relation over the frameworks, cyclic and
\* self-referencing ones included, bind_framework is never called twice
\* with the same framework, the worklist loop is left after finitely many
\* turns, and when it is left at its end bind_framework has been called
\* with exactly the frameworks reachable from Foundation.
C16_WorklistTerminates ==
    /\ [](\A i, j \in DOMAIN invoked : invoked[i] = invoked[j] => i = j)
    /\ [](mainpc = "end" => Invoked = ReachableFrom({"Foundation"}))
    /\ <>(mainpc # "loop")

\* the loop has ended over an SDK in which Foundation imports itself and
\* CoreFoundation, CoreFoundation imports Foundation back and Security,
\* and all three frameworks have been bound
C16_Witness ==
    /\ mainpc = "end"
    /\ sdk.imports["Foundation"] = {"Foundation", "CoreFoundation"}
    /\ sdk.imports["CoreFoundation"] = {"Foundation", "Security"}
    /\ Len(invoked) = 3
    /\ done = Frameworks

(***************************************************************************)
(* The reference-counted handle: src/objc_rustime/src/lib.rs, Arc<T>.      *)
(***************************************************************************)
Objects == {"o1", "o2", "o3"}

MaxHandles == 3     \* live values of type Option<Arc<T>>

\* *mut T: an object or the null pointer
Null == "null"

\* Option<Arc<T>>::None
NoHandle == "None"

\* lib.rs 166: objc_retain adds one reference to the object
objc_retain(rc, o) == [rc EXCEPT ![o] = @ + 1]

\* lib.rs 167: objc_release takes one reference from the object, which is
\* deallocated when none is left
objc_release(rc, o) == [rc EXCEPT ![o] = @ - 1]

\* the handle at position i of a sequence of handles goes out of scope
RemoveAt(s, i) == SubSeq(s, 1, i - 1) \o SubSeq(s, i + 1, Len(s))

CloneRefcountUnretained(rc, p) == rc

\* lib.rs 134-141: what Clone::clone does to the counts
CloneRefcount(rc, p) == objc_retain(rc, p)

\* lib.rs 143-147: what Drop::drop does to the counts
DropRefcount(rc, p) == objc_release(rc, p)

\* lib.rs 171: objc_allocWithZone returns a new object that carries one
\* reference, owned by the caller
AllocWithZone(o) ==
    /\ o \notin DOMAIN refcount
    /\ refcount' = Insert(refcount, o, 1)
    /\ raw' = raw \cup {o}
    /\ UNCHANGED <<handles, genvars, drivervars, poolvars>>

\* lib.rs 123-131: Arc::new(p) for a pointer the caller owns one reference
\* of, or the null pointer
ArcNew(p) ==
    /\ p \in raw \cup {Null}
    /\ Len(handles) < MaxHandles
    /\ handles' = Append(handles, IF p # Null THEN p ELSE NoHandle)
    /\ raw' = raw \ {p}
    /\ UNCHANGED <<refcount, genvars, drivervars, poolvars>>

\* lib.rs 117-121: Arc::new_unchecked(p); its caller promises p is not null
ArcNewUnchecked(p) ==
    /\ p \in raw
    /\ Len(handles) < MaxHandles
    /\ handles' = Append(handles, p)
    /\ raw' = raw \ {p}
    /\ UNCHANGED <<refcount, genvars, drivervars, poolvars>>

\* lib.rs 134-141: the handle at position i is cloned
ArcClone(i) ==
    /\ i \in DOMAIN handles
    /\ handles[i] # NoHandle
    /\ Len(handles) < MaxHandles
    /\ refcount' = CloneRefcount(refcount, handles[i])
    /\ handles' = Append(handles, handles[i])
    /\ UNCHANGED <<raw, genvars, drivervars, poolvars>>

\* lib.rs 143-147: the value at position i is dropped; dropping None does
\* nothing
ArcDrop(i) ==
    /\ i \in DOMAIN handles
    /\ refcount' = IF handles[i] # NoHandle
                   THEN DropRefcount(refcount, handles[i]) ELSE refcount
    /\ handles' = RemoveAt(handles, i)
    /\ UNCHANGED <<raw, genvars, drivervars, poolvars>>

NextArc ==
    \/ \E o \in Objects : AllocWithZone(o)
    \/ \E p \in Objects \cup {Null} : ArcNew(p)
    \/ \E p \in Objects : ArcNewUnchecked(p)
    \/ \E i \in 1..MaxHandles : ArcClone(i)
    \/ \E i \in 1..MaxHandles : ArcDrop(i)

SpecArc == Init /\ [][NextArc]_vars

\* the live handles of the object o
LiveHandles(o) == {i \in DOMAIN handles : handles[i] = o}

\* C18: after any sequence of constructions, clones and drops the retain
\* count of every object equals the number of its live handles, plus the
\* one reference of a pointer no handle has been constructed from yet; so
\* the count of an object whose pointer has been wrapped is zero exactly
\* when it has no live handle.
C18_CountEqualsHandles ==
    \A o \in DOMAIN refcount :
        /\ refcount[o] = Cardinality(LiveHandles(o)) + (IF o \in raw THEN 1 ELSE 0)
        /\ o \notin raw => (refcount[o] = 0 <=> LiveHandles(o) = {})

\* o1 was wrapped and its last handle has been dropped, while o2 has the
\* handle it was wrapped in and two clones of it
C18_Witness ==
    /\ "o1" \in DOMAIN refcount
    /\ "o1" \notin raw
    /\ refcount["o1"] = 0
    /\ "o2" \in DOMAIN refcount
    /\ Cardinality(LiveHandles("o2")) = 3
    /\ refcount["o2"] = 3

(***************************************************************************)
(* The scoped pool: src/objc_rustime/src/lib.rs, macro autoreleasepool!.   *)
(***************************************************************************)
MaxBlocks == 3      \* autoreleasepool! blocks entered in one run

MaxDepth == 3       \* blocks and calls the program is inside at one time

\* the entries of `frames`: a block with the token of its pool, and the
\* call of a function
Block(c) == [c |-> c]

CallFrame == [call |-> TRUE]

IsBlock(f) == "c" \in DOMAIN f

\* the tokens objc_autoreleasePoolPush has returned so far
Pushed == {poollog[i].c : i \in {j \in DOMAIN poollog : poollog[j].op = "push"}}

\* objc_autoreleasePoolPush: a new pool on top of the thread's pools, and
\* the token that names it
PoolPush(stack) == Append(stack, Cardinality(Pushed) + 1)

\* objc_autoreleasePoolPop(c): the pool c and every pool pushed after it
\* are released
PoolPop(stack, c) ==
    LET at == {i \in DOMAIN stack : stack[i] = c}
    IN  IF at = {} THEN stack
        ELSE SubSeq(stack, 1, (CHOOSE i \in at : TRUE) - 1)

\* the position of the function the program is in: the last call in
\* frames, or 0 for the outermost function
CurrentCall ==
    LET calls == {i \in DOMAIN frames : frames[i] = CallFrame}
    IN  IF calls = {} THEN 0 ELSE CHOOSE i \in calls : \A j \in calls : j <= i

NoDropOnReturn(fs) == <<>>

\* lib.rs 26-30, 32-34: `pool` is a local of the block, so a return drops
\* the pools of the blocks it leaves, the innermost first
DropsOnReturn(fs) == [i \in 1..Len(fs) |-> fs[Len(fs) + 1 - i].c]

\* lib.rs 26-30: Drop::drop of each pool of cs in turn
RECURSIVE DropPools(_, _, _)
DropPools(st, cs, by) ==
    IF cs = <<>> THEN st
    ELSE DropPools([stack |-> PoolPop(st.stack, Head(cs)),
                    log |-> Append(st.log, [op |-> "pop", c |-> Head(cs), by |-> by])],
                   Tail(cs), by)

\* lib.rs 32-33: the block is entered, the pool is pushed and the body
\* begins
EnterBlock ==
    /\ Cardinality(Pushed) < MaxBlocks
    /\ Len(frames) < MaxDepth
    /\ poolstack' = PoolPush(poolstack)
    /\ frames' = Append(frames, Block(Cardinality(Pushed) + 1))
    /\ poollog' = Append(poollog, [op |-> "push", c |-> Cardinality(Pushed) + 1])
    /\ UNCHANGED <<genvars, drivervars, arcvars>>

\* lib.rs 34-35: the body of the innermost block comes to its end and
\* `pool` goes out of scope
LeaveBlock ==
    /\ frames # <<>>
    /\ IsBlock(frames[Len(frames)])
    /\ LET st == DropPools([stack |-> poolstack, log |-> poollog],
                           <<frames[Len(frames)].c>>, "end")
       IN  /\ poolstack' = st.stack
           /\ poollog' = st.log
    /\ frames' = SubSeq(frames, 1, Len(frames) - 1)
    /\ UNCHANGED <<genvars, drivervars, arcvars>>

\* the body calls a function
Call ==
    /\ Len(frames) < MaxDepth
    /\ frames' = Append(frames, CallFrame)
    /\ UNCHANGED <<poolstack, poollog, genvars, drivervars, arcvars>>

\* a return statement in the function the program is in, from inside any
\* number of its blocks
Return ==
    /\ frames # <<>>
    /\ LET st == DropPools([stack |-> poolstack, log |-> poollog],
                           DropsOnReturn(SelectSeq(SubSeq(frames, CurrentCall + 1, Len(frames)), IsBlock)),
                           "return")
       IN  /\ poolstack' = st.stack
           /\ poollog' = st.log
    /\ frames' = SubSeq(frames, 1, CurrentCall - 1)
    /\ UNCHANGED <<genvars, drivervars, arcvars>>

NextPool == EnterBlock \/ LeaveBlock \/ Call \/ Return

SpecPool == Init /\ [][NextPool]_vars

\* the positions of poollog at which the pool c is pushed, and popped
PushesOf(c) == {i \in DOMAIN poollog : poollog[i].op = "push" /\ poollog[i].c = c}

PopsOf(c) == {i \in DOMAIN poollog : poollog[i].op = "pop" /\ poollog[i].c = c}

\* the blocks the program is inside, outermost first
RECURSIVE ActiveBlocks(_)
ActiveBlocks(fs) ==
    IF fs = <<>> THEN <<>>
    ELSE IF IsBlock(Head(fs)) THEN <<Head(fs).c>> \o ActiveBlocks(Tail(fs))
    ELSE ActiveBlocks(Tail(fs))

\* C19: every block has pushed its pool once, before its body; a block the
\* program is still inside has not popped it, and a block that has been
\* left, by the end of its body or by a return, has popped it once; so the
\* pools of the thread are those of the blocks the program is inside; and
\* a block entered inside the body of another pops before the other does.
C19_PushPopBracket ==
    /\ poolstack = ActiveBlocks(frames)
    /\ \A c \in Pushed :
          /\ Cardinality(PushesOf(c)) = 1
          /\ Cardinality(PopsOf(c)) = (IF Block(c) \in Range(frames) THEN 0 ELSE 1)
          /\ \A i \in PushesOf(c), j \in PopsOf(c) : i < j
    /\ \A c, d \in Pushed :
          \A pc_ \in PushesOf(c), pd \in PushesOf(d), qc \in PopsOf(c) :
              (pc_ < pd /\ pd < qc) => \E qd \in PopsOf(d) : qd < qc

\* two nested blocks have been left by one return: the inner pool was
\* popped first, then the outer one
C19_Witness ==
    /\ Len(poollog) >= 4
    /\ \E i \in DOMAIN poollog :
          /\ i + 3 \in DOMAIN poollog
          /\ poollog[i] = [op |-> "push", c |-> 1]
          /\ poollog[i + 1] = [op |-> "push", c |-> 2]
          /\ poollog[i + 2] = [op |-> "pop", c |-> 2, by |-> "return"]
          /\ poollog[i + 3] = [op |-> "pop", c |-> 1, by |-> "return"]
    /\ frames = <<>>
    /\ poolstack = <<>>

(***************************************************************************)
(* The generator run twice over one sequence of cursors.                   *)
(***************************************************************************)
FunctionG == FunctionCursor("g", LocalSrc, "Available", FALSE, <<>>, TVoid, FALSE)

RerunFunctions ==
    { FunctionCursor("f", LocalSrc, "Available", FALSE, <<>>, TVoid, FALSE),
      FunctionCursor("f", LocalSrc, "Available", FALSE,
                     <<[name |-> <<"a">>, ty |-> TInt32]>>, TVoid, FALSE),
      FunctionG }

\* the interface Root with one method taking an int, as a class method and
\* as an instance method
RerunClasses ==
    { c \in SigCursors :
        c.children[1].args = <<[name |-> <<"a">>, ty |-> TInt32]>> }

RerunCursors == RerunFunctions \cup RerunClasses

\* the sequences of top-level cursors a translation unit may hand to the
\* closure of tu.visit
Scripts ==
    UNION { [1..n -> RerunCursors] : n \in 1..MaxCursors }

InitRerun ==
    /\ decls = EmptyMap
    /\ declnames = <<>>
    /\ anonnames = <<>>
    /\ nvisited = 0
    /\ offered = {}
    /\ pc = "visit"
    /\ out = NoOut
    /\ ev = NoEnum
    /\ DriverIdle
    /\ ArcIdle
    /\ PoolIdle
    /\ \E s \in Scripts : rerun = [script |-> s, first |-> <<>>]

\* the cursor the translation unit hands out next
IsNext(c) == nvisited < Len(rerun.script) /\ c = rerun.script[nvisited + 1]

\* lines 1183-1192: bind_tu is called again on the same translation unit,
\* with a new catalog; what the first call produced is kept for comparison
Restart ==
    /\ pc = "done"
    /\ rerun.first = <<>>
    /\ rerun' = [rerun EXCEPT
                    !.first = <<[decls |-> decls, declnames |-> declnames, out |-> out]>>]
    /\ decls' = EmptyMap
    /\ declnames' = <<>>
    /\ anonnames' = <<>>
    /\ nvisited' = 0
    /\ offered' = {}
    /\ pc' = "visit"
    /\ out' = NoOut
    /\ UNCHANGED <<ev, drivervars, arcvars, poolvars>>

NextRerun ==
    \/ \E c \in RerunCursors : IsNext(c) /\ VisitFunction(c)
    \/ \E c \in RerunCursors : IsNext(c) /\ VisitInterface(c)
    \/ nvisited = Len(rerun.script) /\ GenFile
    \/ Restart

SpecRerun == InitRerun /\ [][NextRerun]_vars

\* the position of the catalog key k in the first-seen order `names`
SeenAt(names, k) == CHOOSE i \in DOMAIN names : names[i] = k

\* the catalog entries of the emitted unit o, items and functions, stand
\* in the order in which `names` saw their keys first
FirstSeenOrder(o, names) ==
    /\ \A i, j \in DOMAIN o.items :
          i < j => SeenAt(names, o.items[i].key) < SeenAt(names, o.items[j].key)
    /\ \A i, j \in DOMAIN o.funcorder :
          i < j => SeenAt(names, o.funcorder[i]) < SeenAt(names, o.funcorder[j])

\* C17: when the traversal and the emission have been run twice over the
\* same cursor sequence, the two catalogs are identical, the two units
\* hold the same selectors, items and functions, and in both units the
\* catalog entries stand in first-seen order.
C17_RerunIdentical ==
    (pc = "done" /\ rerun.first # <<>>) =>
        LET a == rerun.first[1]
        IN  /\ decls = a.decls
            /\ declnames = a.declnames
            /\ Range(out.sels) = Range(a.out.sels)
            /\ out.items = a.out.items
            /\ out.funcs = a.out.funcs
            /\ FirstSeenOrder(out, declnames)
            /\ FirstSeenOrder(a.out, a.declnames)

\* the pointee of a data pointer as rust_ty renders it
BorrowOf(t) == RWrap("&", IF Inner(t).k = "Void" THEN RPrim("c_void") ELSE rust_ty(Inner(t), TRUE))

RECURSIVE Unnamed(_)
Unnamed(t) ==
    \/ t.k \in {"Record", "Enum"} /\ t.name = ""
    \/ \E i \in DOMAIN t.inner : Unnamed(t.inner[i])

\* the types the catalog entry e keeps: field types, the typedef's type,
\* the argument and result types of functions and methods
KeptTypes(e) ==
    CASE e.item = "Record" -> {e.d.fields[i].ty : i \in DOMAIN e.d.fields}
      [] e.item = "Typedef" -> {e.d.ty}
      [] e.item = "Func" ->
            {e.d.args[i].ty : i \in DOMAIN e.d.args} \cup {e.d.retty}
      [] e.item = "Class" ->
            UNION { {m.args[i].ty : i \in DOMAIN m.args} \cup {m.retty} :
                    m \in Range(e.d.cmethods) \cup Range(e.d.imethods) }
      [] OTHER -> {}

\* C22: no type kept in a catalogued record field, typedef, method or
\* function signature mentions a record or an enum with an empty name,
\* directly, behind a pointer or inside an array of any nesting.
C22_NoUnnamedReference ==
    \A k \in DOMAIN decls : \A t \in KeptTypes(decls[k]) : ~Unnamed(t)

\* the names of the fields the catalog keeps for the record k
FieldNames(k) == {decls[k].d.fields[i].name : i \in DOMAIN decls[k].d.fields}

\* C23: once struct W { struct { int y; }; int x; } is catalogued it has
\* the member y of its anonymous struct beside its own member x; once
\* struct Outer is catalogued its nested struct Inner is catalogued too and
\* was listed before it; and while only records are read, nothing being
\* emitted yet, the run is not aborted.
C23_NestedRecordsFlattened ==
    /\ "W" \in DOMAIN decls => FieldNames("W") = {t_x, <<"y">>}
    /\ "Outer" \in DOMAIN decls =>
          /\ "Inner" \in DOMAIN decls
          /\ SeenAt(declnames, "Inner") < SeenAt(declnames, "Outer")
    /\ ((\A o \in offered : o.decl \in {"StructDecl", "UnionDecl"}) /\ out = NoOut)
          => pc # "panic"

(***************************************************************************)
(* Type::refs on its own: the types of a bounded nesting depth.            *)
(***************************************************************************)
MaxTypeDepth == 3   \* pointers, arrays, signatures and type arguments around a name

\* struct S, union U, enum E, class P, id<P>, id, int and va_list
LeafTypes ==
    { TInt32, TRecord("S", FALSE), TRecord("U", TRUE), TEnum("E"), TClass("P"),
      TId(TRUE, "P"), TId(FALSE, ""), TVaList }

\* NSArray<a>: a class with one type argument
TGeneric(a) == Ty("Class", "NSArray", FALSE, 0, <<a>>, FALSE)

RECURSIVE TypesOfDepth(_)
TypesOfDepth(n) ==
    IF n = 0 THEN LeafTypes
    ELSE LET T == TypesOfDepth(n - 1)
         IN  T \cup { TPointer(t, FALSE, FALSE) : t \in T }
               \cup { TFixedArray(t, 2) : t \in T }
               \cup { TFunctionProto(<<t>>, TVoid, FALSE) : t \in T }
               \cup { TGeneric(t) : t \in T }

InitRefs ==
    /\ decls = EmptyMap
    /\ declnames = <<>>
    /\ anonnames = <<>>
    /\ nvisited = 0
    /\ offered = {}
    /\ pc = "visit"
    /\ out = NoOut
    /\ \E t \in TypesOfDepth(MaxTypeDepth) : ev = [phase |-> "type", t |-> t]
    /\ DriverIdle
    /\ ArcIdle
    /\ PoolIdle
    /\ RerunIdle

\* lines 299-337: Type::refs is called on the type with an empty list
CollectRefs ==
    /\ ev.phase = "type"
    /\ ev' = [phase |-> "refs", t |-> ev.t, refs |-> TypeRefs(ev.t)]
    /\ UNCHANGED <<decls, declnames, anonnames, nvisited, offered, pc, out, rtvars>>

NextRefs == CollectRefs

SpecRefs == InitRefs /\ [][NextRefs]_vars

\* the names of records, enums and classes the type t mentions, and P
\* tagged as a protocol for each id<P>; the built-in va_list, Class and
\* Protocol are no names of declarations
RECURSIVE Mentioned(_)
Mentioned(t) ==
    IF is_va_list(t) THEN {}
    ELSE (CASE t.k \in {"Record", "Enum"} -> {t.name}
            [] t.k = "Class" /\ t.name \notin {"Class", "Protocol"} -> {t.name}
            [] t.k = "Id" /\ t.flag -> {t.name \o "Proto"}
            [] OTHER -> {})
         \cup UNION { Mentioned(t.inner[i]) : i \in DOMAIN t.inner }

\* C24: the list Type::refs returns for a type holds every name of a
\* record (struct or union), enum or class the type mentions, through
\* pointers, arrays, signatures and type arguments, and for id<P> a name
\* of the protocol that is not the name P of a class.
C24_RefsComplete ==
    ev.phase = "refs" =>
        /\ Mentioned(ev.t) \subseteq Range(ev.refs)
        /\ ev.t = TId(TRUE, "P") => "P" \notin Range(ev.refs)

\* the names a catalogued method or function signature mentions
SignatureMentions(d) ==
    Mentioned(d.retty) \cup UNION { Mentioned(d.args[i].ty) : i \in DOMAIN d.args }

\* the names that count as resolved: the catalog keys and NSString
Resolved == DOMAIN decls \cup {"NSString"}

\* C25: no emitted method, accessor or function mentions a name that is
\* neither a key of the catalog nor NSString; a declaration with such a
\* reference is left out of the unit and emission does not abort.
C25_NoUnresolvedReference ==
    /\ \A e \in MethodItems : \A x \in e.methods :
           SignatureMentions(MethodOf(e.key, x)) \subseteq Resolved
    /\ \A f \in out.funcs : SignatureMentions(decls[f.name].d) \subseteq Resolved

(***************************************************************************)
(* Type::read on the types clang reports.  A clang type is a kind, the     *)
(* attribute of an attributed layer, the name of a typedef or of a record  *)
(* declaration, and the types below it.                                    *)
(***************************************************************************)
MaxClangDepth == 3

ClangTy(kind, attr, name, sub) == [kind |-> kind, attr |-> attr, name |-> name, sub |-> sub]

CInt == ClangTy("Int", "", "", <<>>)
CObjCId == ClangTy("ObjCId", "", "", <<>>)
CRecord(name) == ClangTy("Record", "", name, <<>>)
CPointer(pointee) == ClangTy("Pointer", "", "", <<pointee>>)
CConstantArray(elem) == ClangTy("ConstantArray", "", "", <<elem>>)
CIncompleteArray(elem) == ClangTy("IncompleteArray", "", "", <<elem>>)
CFunctionProto(arg) == ClangTy("FunctionProto", "", "", <<arg, CInt>>)
CTypedef(underlying) == ClangTy("Typedef", "", "T", <<underlying>>)
CElaborated(named) == ClangTy("Elaborated", "", "", <<named>>)
\* attr is NonNull, Nullable, or Other for an attribute that says nothing
\* of nullability, such as an ownership qualifier
CAttributed(attr, modified) == ClangTy("Attributed", attr, "", <<modified>>)

Sugar == {"Typedef", "Elaborated", "Attributed"}

\* the type below every typedef, elaboration and attribute layer
RECURSIVE Desugar(_)
Desugar(t) == IF t.kind \in Sugar THEN Desugar(t.sub[1]) ELSE t

\* Ty::nullability: clang_Type_getNullability answers with the outermost
\* nullability attribute found through the sugar of the type, and the
\* wrapper turns its Invalid answer into Unspecified
RECURSIVE nullability(_)
nullability(t) ==
    IF t.kind = "Attributed" /\ t.attr # "Other" THEN t.attr
    ELSE IF t.kind \in Sugar THEN nullability(t.sub[1])
    ELSE "Unspecified"

RECURSIVE is_anonymous(_)
is_anonymous(t) ==
    CASE t.k \in {"FixedArray", "Pointer"} -> is_anonymous(Inner(t))
      [] t.k \in {"Enum", "Record"} -> t.name = ""
      [] OTHER -> FALSE

RECURSIVE TypeRead(_, _, _)
TypeRead(t, name, nonnull) ==
    CASE t.kind = "Int" -> TInt32
      [] t.kind = "Record" ->
            TRecord(IF IsSome(name) THEN Unwrap(name) ELSE t.name, FALSE)
      [] t.kind = "ConstantArray" -> TFixedArray(TypeRead(t.sub[1], None, FALSE), 2)
      [] t.kind = "IncompleteArray" ->
            TPointer(TypeRead(t.sub[1], None, FALSE), nonnull, FALSE)
      [] t.kind = "Typedef" ->
            LET inner == TypeRead(t.sub[1], Some(t.name), nonnull)
            IN  IF is_anonymous(inner) THEN TTypedef(t.name) ELSE inner
      [] t.kind = "Attributed" ->
            TypeRead(t.sub[1], name, nullability(t) = "NonNull")
      [] t.kind = "Elaborated" -> TypeRead(t.sub[1], name, nonnull)
      [] t.kind = "Pointer" -> TPointer(TypeRead(t.sub[1], None, FALSE), nonnull, FALSE)
      [] t.kind = "FunctionProto" ->
            TFunctionProto(<<TypeRead(t.sub[1], None, FALSE)>>,
                           TypeRead(t.sub[2], None, FALSE), FALSE)
      [] t.kind = "ObjCId" -> TPointer(TId(FALSE, ""), nonnull, FALSE)

\* the types a header can spell: a nullability qualifier stands on a
\* pointer and on no type that carries the other qualifier, an
\* elaboration names a record or a typedef, a function type appears
\* behind a pointer, and an array has complete elements
RECURSIVE ClangTypes(_)
ClangTypes(n) ==
    IF n = 0 THEN {CInt, CObjCId, CRecord("S"), CRecord("")}
    ELSE LET T == ClangTypes(n - 1)
         IN  T \cup { CPointer(t) : t \in T }
               \cup { CPointer(CFunctionProto(t)) : t \in T }
               \cup { CConstantArray(t) : t \in {u \in T : u.kind # "IncompleteArray"} }
               \cup { CIncompleteArray(t) : t \in {u \in T : u.kind # "IncompleteArray"} }
               \cup { CTypedef(t) : t \in T }
               \cup { CElaborated(t) : t \in {u \in T : u.kind \in {"Record", "Typedef"}} }
               \cup { CAttributed("Other", t) : t \in T }
               \cup UNION { { CAttributed(a, t) :
                               t \in {u \in T : /\ Desugar(u).kind \in {"Pointer", "ObjCId"}
                                                /\ nullability(u) \in {"Unspecified", a}} } :
                             a \in {"NonNull", "Nullable"} }

InitRead ==
    /\ decls = EmptyMap
    /\ declnames = <<>>
    /\ anonnames = <<>>
    /\ nvisited = 0
    /\ offered = {}
    /\ pc = "visit"
    /\ out = NoOut
    /\ \E t \in ClangTypes(MaxClangDepth) : ev = [phase |-> "clang", ct |-> t]
    /\ DriverIdle
    /\ ArcIdle
    /\ PoolIdle
    /\ RerunIdle

\* every caller outside Type::read passes no name and nonnull = false
ReadType ==
    /\ ev.phase = "clang"
    /\ ev' = [phase |-> "read", ct |-> ev.ct, t |-> TypeRead(ev.ct, None, FALSE)]
    /\ UNCHANGED <<decls, declnames, anonnames, nvisited, offered, pc, out, rtvars>>

NextRead == ReadType

SpecRead == InitRead /\ [][NextRead]_vars

\* the clang type read as a pointee, array element or function argument
\* of the clang type t, and what it was read as
HasPosition(t) ==
    Desugar(t).kind \in {"Pointer", "ConstantArray", "IncompleteArray", "FunctionProto"}

\* a clang type that resolves to a pointer and carries no nullability
\* qualifier is read as a nullable pointer
ReadNullable(ct, t) ==
    (Desugar(ct).kind \in {"Pointer", "ObjCId"} /\ nullability(ct) = "Unspecified"
        /\ t.k = "Pointer") => ~t.flag

\* C26: a type under an attributed layer of nullability NonNull is read,
\* through every further typedef, elaboration and attribute layer, as a
\* nonnull Pointer; a pointer without nullability qualifier, at the top
\* or as pointee, array element or function argument, is read as nullable.
C26_NonNullThroughLayers ==
    ev.phase = "read" =>
        /\ (ev.ct.kind = "Attributed" /\ ev.ct.attr = "NonNull" /\ ev.t.k = "Pointer")
              => ev.t.flag
        /\ ReadNullable(ev.ct, ev.t)
        /\ (HasPosition(ev.ct) /\ ev.t.k \in {"Pointer", "FixedArray", "FunctionProto"})
              => ReadNullable(Desugar(ev.ct).sub[1], ev.t.inner[1])

\* C27: the first-seen name list holds only keys of the catalog and no
\* name twice, after every traversal step, across the renaming of an
\* enum by a later typedef and across typedefs of pointers to anonymous
\* records.
C27_NamesAreDistinctKeys ==
    /\ \A i \in DOMAIN declnames : declnames[i] \in DOMAIN decls
    /\ \A i, j \in DOMAIN declnames : declnames[i] = declnames[j] => i = j

\* C28: the callables emitted into the implementation block of one class
\* have pairwise distinct names, whatever the mix of class methods,
\* instance methods, property accessors and initializers renamed from
\* init to new.
C28_DistinctCallableNames ==
    \A e \in ClassItems : \A x, y \in e.methods :
        x.call.mname = y.call.mname => x = y

\* C29: in every emitted binding the i-th dispatch argument is computed
\* from the i-th parameter of the binding and the parameter names are
\* pairwise distinct, also when the declaration repeats an argument name
\* or uses a name of the form name_n.
C29_ArgumentsFollowParameters ==
    \A e \in MethodItems : \A x \in e.methods :
        /\ \A i \in DOMAIN x.call.args : x.call.args[i].name = x.call.params[i].name
        /\ \A i, j \in DOMAIN x.call.params :
              x.call.params[i].name = x.call.params[j].name => i = j

\* C30: two distinct selector texts of one unit have two distinct slot
\* identifiers: replacing ':' by '_' in the slot name never makes two
\* selectors share a slot.
C30_SlotNamesInjective ==
    \A i, j \in DOMAIN out.sels :
        out.sels[i].text # out.sels[j].text => out.sels[i].name # out.sels[j].name

====
